---- MODULE Spec2Model ----
(***************************************************************************)
(* ssm2txt: conversion of a SISTEMA project file (tables of rows keyed by  *)
(* oid) into a text report.  The model follows src/ssm2txt: the rows are   *)
(* read table by table and one Node is constructed per row (tree           *)
(* assembly), the project node is located, the output file is opened and   *)
(* the tree is rendered depth-first into it.                               *)
(*                                                                         *)
(* Strings are sequences of tokens.  A value on which the code works       *)
(* character by character (PL codes, category codes, determination         *)
(* methods, channel types, numbers) is a sequence of one-character tokens; *)
(* free text the code only copies (names, documentation) is one token.     *)
(* A text is a non-empty sequence of lines, the empty string being the     *)
(* text of one empty line; a field of several lines is one item of it.     *)
(***************************************************************************)
EXTENDS Integers, Sequences, FiniteSets, TLC

\* Bounds of the documents explored.
MaxOid == 2
MaxRows == 3


VARIABLES
    doc,        \* the parsed input: the rows of all tables, in document order
    pos,        \* index of the next row read_tables hands to a constructor
    objs,       \* the Node objects constructed so far, in construction order
    nodes,      \* the mapping from OID to node object (index into objs)
    prj,        \* the project node found by get_project (None before)
    pc,         \* position of the run: "read", "project", "write", "str", "done", "failed"
    file,       \* the output file: whether it exists, and the text it holds
    file0,      \* the output file as it was when the run started
    out,        \* the report string produced by str(ssm) (NoText before)
    err,        \* the exception that ended the run (NoErr while running)
    call        \* a call of one formatter or converter on its own: the
                \* function, its argument and, once it returned, its result

vars == <<doc, pos, objs, nodes, prj, pc, file, file0, out, err, call>>

-----------------------------------------------------------------------------
(* Python values *)

None == 0
NoText == <<>>
NoErr == [exc |-> "", at |-> "", node |-> 0, tab |-> "", attrib |-> ""]

\* A result of evaluating Python code: a value, or a raised exception.
Ok(v) == [exc |-> "", v |-> v]
Raise(e) == [exc |-> e, v |-> <<>>, node |-> 0, tab |-> "", attrib |-> ""]
IsOk(r) == r.exc = ""

\* Sequencing of Python code: an exception raised by r ends the evaluation,
\* a value is handed to the code that follows, K.
Then(r, K(_)) == IF IsOk(r) THEN K(r.v) ELSE r


-----------------------------------------------------------------------------
(* Python strings, as sequences of tokens *)

\* str.lower() of one character.
Lower(c) ==
    CASE c = "A" -> "a" [] c = "B" -> "b" [] c = "C" -> "c" [] c = "D" -> "d"
      [] c = "E" -> "e" [] c = "N" -> "n" [] c = "U" -> "u" [] c = "S" -> "s"
      [] c = "T" -> "t" [] c = "I" -> "i" [] c = "L" -> "l" [] c = "M" -> "m"
      [] OTHER -> c

\* s.lower()
LowerStr(s) == [i \in 1..Len(s) |-> Lower(s[i])]

\* s[k:], k characters dropped from the front.
DropFirst(s, k) == IF Len(s) <= k THEN <<>> ELSE SubSeq(s, k + 1, Len(s))

\* s[-k:], the last k characters.
LastChars(s, k) == IF Len(s) <= k THEN s ELSE SubSeq(s, Len(s) - k + 1, Len(s))

\* sub in s
Contains(s, sub) ==
    \E i \in 1..(Len(s) - Len(sub) + 1) : SubSeq(s, i, i + Len(sub) - 1) = sub

\* s.split(','): the pieces between commas; always at least one piece.
RECURSIVE Split(_)
Split(s) ==
    IF \A i \in 1..Len(s) : s[i] # ","
    THEN <<s>>
    ELSE LET k == CHOOSE i \in 1..Len(s) :
                      s[i] = "," /\ \A j \in 1..(i - 1) : s[j] # ","
         IN  <<SubSeq(s, 1, k - 1)>> \o Split(SubSeq(s, k + 1, Len(s)))

\* s.strip()
RECURSIVE Strip(_)
Strip(s) ==
    IF s = <<>> THEN s
    ELSE IF s[1] = " " THEN Strip(Tail(s))
    ELSE IF s[Len(s)] = " " THEN Strip(SubSeq(s, 1, Len(s) - 1))
    ELSE s

Digits == {"0", "1", "2", "3", "4", "5", "6", "7", "8", "9"}

DigitVal(c) ==
    CASE c = "0" -> 0 [] c = "1" -> 1 [] c = "2" -> 2 [] c = "3" -> 3
      [] c = "4" -> 4 [] c = "5" -> 5 [] c = "6" -> 6 [] c = "7" -> 7
      [] c = "8" -> 8 [] c = "9" -> 9

RECURSIVE NatVal(_)
NatVal(s) == IF s = <<>> THEN 0 ELSE 10 * NatVal(SubSeq(s, 1, Len(s) - 1)) + DigitVal(s[Len(s)])

\* int(s): surrounding blanks and one sign allowed, then digits only.
int(s) ==
    LET t == Strip(s)
        signed == t # <<>> /\ t[1] \in {"-", "+"}
        d == IF signed THEN Tail(t) ELSE t
    IN  IF d = <<>> \/ \E i \in 1..Len(d) : d[i] \notin Digits
        THEN Raise("ValueError")
        ELSE Ok(IF signed /\ t[1] = "-" THEN 0 - NatVal(d) ELSE NatVal(d))

\* The sign of float(s), for decimal numerals: -1, 0 or 1.
float_sign(s) ==
    LET t == Strip(s)
        signed == t # <<>> /\ t[1] \in {"-", "+"}
        d == IF signed THEN Tail(t) ELSE t
        dots == {i \in 1..Len(d) : d[i] = "."}
    IN  IF d = <<>> \/ d = <<".">> \/ Cardinality(dots) > 1
           \/ \E i \in 1..Len(d) : d[i] \notin Digits \cup {"."}
        THEN Raise("ValueError")
        ELSE IF \A i \in 1..Len(d) : d[i] \in {"0", "."} THEN Ok(0)
        ELSE Ok(IF signed /\ t[1] = "-" THEN 0 - 1 ELSE 1)

\* sep.join(items) for strings without line breaks.
RECURSIVE JoinStr(_, _)
JoinStr(items, sep) ==
    IF items = <<>> THEN <<>>
    ELSE IF Len(items) = 1 THEN items[1]
    ELSE items[1] \o sep \o JoinStr(Tail(items), sep)

\* str(b) of a bool.
str_bool(b) == IF b THEN <<"True">> ELSE <<"False">>

-----------------------------------------------------------------------------
(* src/ssm2txt/__main__.py and src/ssm2txt/base.py: tree assembly *)

\* SSM.tables: table_name -> type of Node instantiated for each row.
tables ==
    [projectops |-> "Project", sfops |-> "SafetyFunction",
     componentops |-> "Subsystem", channelops |-> "Channel",
     blocops |-> "Block", elementops |-> "Element"]

\* The parent_attr class attribute of each Node subclass; Project has none.
parent_attr ==
    [SafetyFunction |-> "projectopoid", Subsystem |-> "sfopoid",
     Channel |-> "componentopoid", Block |-> "parentopoid",
     Element |-> "parentopoid"]

\* Base.oid of an element (a row).
oid(element) == element.attrib["oid"]

\* A lookup of parent_oid in the OID mapping that yields None for a missing
\* key instead of raising.
parent_lenient(element, type) ==
    IF type \notin DOMAIN parent_attr THEN Ok(None)
    ELSE IF parent_attr[type] \notin DOMAIN element.attrib THEN Ok(None)
    ELSE IF element.attrib[parent_attr[type]] \notin DOMAIN nodes THEN Ok(None)
    ELSE Ok(nodes[element.attrib[parent_attr[type]]])

\* Node.parent: the node one level above, looked up by OID at call time.
parent(element, type) ==
    IF type \notin DOMAIN parent_attr THEN Ok(None)
    ELSE IF parent_attr[type] \notin DOMAIN element.attrib THEN Raise("KeyError")
    ELSE IF element.attrib[parent_attr[type]] \notin DOMAIN nodes THEN Raise("KeyError")
    ELSE Ok(nodes[element.attrib[parent_attr[type]]])

\* A registration that appends the child twice.
add_child_twice(children, child) == Append(Append(children, child), child)

\* A registration that puts the child before the children already there.
add_child_front(children, child) == <<child>> \o children

\* Node.add_child.
add_child(children, child) == Append(children, child)

\* Node.register_with_parent of the node being constructed as object `self`.
register_with_parent(os, self, p) ==
    IF p = None THEN os
    ELSE [os EXCEPT ![p].children = add_child(@, self)]

\* A constructor that enters the node in the OID mapping and in the list of
\* objects before it looks its parent up.
NodeInit_insert_first ==
    /\ pc = "read"
    /\ pos <= Len(doc)
    /\ doc[pos].table \in DOMAIN tables
    /\ LET element == doc[pos]
           type == tables[element.table]
           self == Len(objs) + 1
           p == parent(element, type)
           new == Append(objs, [element |-> element, type |-> type,
                                children |-> <<>>])
       IN  /\ nodes' = [o \in DOMAIN nodes \cup {oid(element)} |->
                           IF o = oid(element) THEN self ELSE nodes[o]]
           /\ IF IsOk(p)
              THEN /\ objs' = register_with_parent(new, self, p.v)
                   /\ pos' = pos + 1
                   /\ UNCHANGED <<pc, err>>
              ELSE /\ objs' = new
                   /\ pc' = "failed"
                   /\ err' = [NoErr EXCEPT !.exc = p.exc, !.at = "read_tables"]
                   /\ UNCHANGED pos
    /\ UNCHANGED <<doc, prj, file, file0, out, call>>

\* Node.__init__(row, nodes, doc), called by read_nodes for the next row of a
\* table that has a row type.
NodeInit ==
    /\ pc = "read"
    /\ pos <= Len(doc)
    /\ doc[pos].table \in DOMAIN tables
    /\ LET element == doc[pos]
           type == tables[element.table]
           self == Len(objs) + 1
           p == parent(element, type)
       IN  IF IsOk(p)
           THEN /\ objs' = register_with_parent(
                              Append(objs, [element |-> element, type |-> type,
                                            children |-> <<>>]),
                              self, p.v)
                /\ nodes' = [o \in DOMAIN nodes \cup {oid(element)} |->
                                IF o = oid(element) THEN self ELSE nodes[o]]
                /\ pos' = pos + 1
                /\ UNCHANGED <<pc, err>>
           ELSE /\ pc' = "failed"
                /\ err' = [NoErr EXCEPT !.exc = p.exc, !.at = "read_tables"]
                /\ UNCHANGED <<objs, nodes, pos>>
    /\ UNCHANGED <<doc, prj, file, file0, out, call>>

\* read_tables: a table whose table_name has no row type is ignored.
IgnoreTable ==
    /\ pc = "read"
    /\ pos <= Len(doc)
    /\ doc[pos].table \notin DOMAIN tables
    /\ pos' = pos + 1
    /\ UNCHANGED <<doc, objs, nodes, prj, pc, file, file0, out, err, call>>

\* doc.find("tables/table[@table_name='projectops']/rows/row"): the first
\* project row of the document, 0 when there is none.
FirstProjectRow ==
    LET I == {i \in 1..Len(doc) : doc[i].table = "projectops"}
    IN  IF I = {} THEN 0 ELSE CHOOSE i \in I : \A j \in I : i <= j

\* SSM.get_project, run once read_tables has returned.
GetProject ==
    /\ pc = "read"
    /\ pos > Len(doc)
    /\ IF FirstProjectRow = 0
       THEN /\ pc' = "failed"
            /\ err' = [NoErr EXCEPT !.exc = "AttributeError", !.at = "get_project"]
            /\ UNCHANGED prj
       ELSE /\ prj' = nodes[oid(doc[FirstProjectRow])]
            /\ pc' = "write"
            /\ UNCHANGED err
    /\ UNCHANGED <<doc, pos, objs, nodes, file, file0, out, call>>

-----------------------------------------------------------------------------
(* src/ssm2txt/base.py: the title block of a node *)

\* Characters used to draw the title blocks.
Node_BORDER_LEFT == "chr(9553)"
Node_BORDER_CORNER == "chr(9562)"
Node_BORDER_BOTTOM == "chr(9552)"
Node_TREE_BRANCH == "chr(9492)"
Tab_BORDER_LEFT == "chr(9474)"
Tab_BORDER_CORNER == "chr(9492)"
Tab_BORDER_BOTTOM == "chr(9472)"

\* Widths of the rule under a node's title block and under a tab's title.
NodeRuleWidth == 80
TabRuleWidth == 40

\* c * n
Rep(c, n) == [i \in 1..n |-> c]

\* One line of the report: its text, and where it comes from (the node, the
\* tab class and the field source that emitted it; the report itself carries
\* the text only).
Line(kind, n, tab, attrib, text) ==
    [k |-> kind, node |-> n, tab |-> tab, attrib |-> attrib, text |-> text]
EmptyLine == Line("empty", 0, "", "", <<>>)

\* sep.join(texts) for sep = '\n' * (blank + 1): the texts one after another,
\* `blank` empty lines between two of them; the join of no text is ''.
RECURSIVE JoinText(_, _)
JoinText(texts, blank) ==
    IF texts = <<>> THEN <<EmptyLine>>
    ELSE IF Len(texts) = 1 THEN texts[1]
    ELSE texts[1] \o [i \in 1..blank |-> EmptyLine] \o JoinText(Tail(texts), blank)

\* Channel.ch_type
ch_type(element) ==
    IF "channeltype" \in DOMAIN element.attrib
    THEN Ok(element.attrib["channeltype"]) ELSE Raise("KeyError")

\* Channel.names
Channel_names(t) ==
    CASE t = <<"c","h","1">> -> Ok(<<"Channel 1">>)
      [] t = <<"c","h","2">> -> Ok(<<"Channel 2">>)
      [] t = <<"c","h","T","e","s","t">> -> Ok(<<"Test Channel">>)
      [] OTHER -> Raise("KeyError")

\* Node.acronym: a class attribute, a property of Channel.
acronym(n) ==
    CASE objs[n].type = "Project" -> Ok(<<"PR">>)
      [] objs[n].type = "SafetyFunction" -> Ok(<<"SF">>)
      [] objs[n].type = "Subsystem" -> Ok(<<"SB">>)
      [] objs[n].type = "Block" -> Ok(<<"BL">>)
      [] objs[n].type = "Element" -> Ok(<<"EL">>)
      [] objs[n].type = "Channel" ->
            Then(ch_type(objs[n].element),
                 LAMBDA t : Ok(IF Contains(t, <<"T","e","s","t">>)
                               THEN <<"TE">> ELSE <<"CH">>))

\* Node.ref_id: "[equipmentid]", None without a non-empty equipmentid.
ref_id(n) ==
    LET a == objs[n].element.attrib
        id == IF "equipmentid" \in DOMAIN a THEN a["equipmentid"] ELSE <<>>
    IN  IF Len(id) > 0 THEN <<"[">> \o id \o <<"]">> ELSE <<>>

\* Node.name, overridden by Channel.name.
name(n) ==
    IF objs[n].type = "Channel"
    THEN Then(ch_type(objs[n].element), LAMBDA t : Channel_names(t))
    ELSE IF "name" \in DOMAIN objs[n].element.attrib
         THEN Ok(objs[n].element.attrib["name"]) ELSE Raise("KeyError")

\* Node.tree_title: the acronym, the reference identifier if any and the
\* name, joined by blanks.
tree_title(n) ==
    Then(acronym(n), LAMBDA a :
    Then(name(n), LAMBDA nm :
    Ok(JoinStr(SelectSeq(<<a, ref_id(n), nm>>, LAMBDA x : x # <<>>), <<" ">>))))

\* Node.get_path: the tree titles from the root down to this node, the parent
\* being looked up in the OID mapping at every level.  `depth` counts the
\* nested calls; Python ends a recursion that does not end by itself with a
\* RecursionError.
RECURSIVE get_path(_, _)
get_path(n, depth) ==
    IF depth > Len(objs) THEN Raise("RecursionError")
    ELSE Then(parent(objs[n].element, objs[n].type), LAMBDA p :
         Then(IF p # None THEN get_path(p, depth + 1) ELSE Ok(<<>>), LAMBDA up :
         Then(tree_title(n), LAMBDA t :
         Ok(Append(up, t)))))

\* Node.path_str: one line per node of the path, indented by its depth, and
\* the closing rule.
path_str(n) ==
    Then(get_path(n, 1), LAMBDA path :
    Ok([i \in 1..Len(path) |->
           Line("path", n, "", "",
                <<Node_BORDER_LEFT, " ">> \o Rep(" ", i - 1)
                \o (IF i > 1 THEN <<Node_TREE_BRANCH>> ELSE <<>>)
                \o path[i])]
       \o <<Line("rule", n, "", "",
                 <<Node_BORDER_CORNER>> \o Rep(Node_BORDER_BOTTOM, NodeRuleWidth))>>))

-----------------------------------------------------------------------------
(* The node types and their tabs *)

\* The tabs class attribute of each Node subclass, as qualified class names.
tabs(type) ==
    CASE type = "Project" -> <<"project.Documentation">>
      [] type = "SafetyFunction" -> <<"sf.Documentation", "sf.PLr">>
      [] type = "Subsystem" ->
            <<"doc.Documentation", "subsystem.PL", "subsystem.Category",
              "subsystem.MTTFD", "subsystem.DCavg", "subsystem.CCF">>
      [] type = "Channel" -> <<>>
      [] type = "Block" -> <<"doc.Documentation", "block.MTTFD", "dc.DC">>
      [] type = "Element" -> <<"doc.Documentation", "element.MTTFD">>

\* type(self).__name__ of a tab class.
TabName(tab) ==
    CASE tab \in {"project.Documentation", "sf.Documentation", "doc.Documentation"}
            -> "Documentation"
      [] tab = "sf.PLr" -> "PLr"
      [] tab = "subsystem.PL" -> "PL"
      [] tab = "subsystem.Category" -> "Category"
      [] tab \in {"subsystem.MTTFD", "block.MTTFD", "element.MTTFD"} -> "MTTFD"
      [] tab = "subsystem.DCavg" -> "DCavg"
      [] tab = "subsystem.CCF" -> "CCF"
      [] tab = "dc.DC" -> "DC"

\* type(node).__name__.lower()
TypeNameLower(type) ==
    CASE type = "Project" -> <<"project">>
      [] type = "SafetyFunction" -> <<"safetyfunction">>
      [] type = "Subsystem" -> <<"subsystem">>
      [] type = "Channel" -> <<"channel">>
      [] type = "Block" -> <<"block">>
      [] type = "Element" -> <<"element">>

MTTFDTabs == {"subsystem.MTTFD", "block.MTTFD", "element.MTTFD"}

\* Tab.Field(title, attrib, show=None)
NoTitle == "<None>"
NoShow == "<None>"
F(title, attrib, show) == [title |-> title, attrib |-> attrib, show |-> show]

project_Documentation_fields ==
    <<F("Project name", "name", NoShow),
      F("Creation date", "createdate", NoShow),
      F("Home folder for standards", "standardsfolder", NoShow),
      F("Home folder for documents", "documentsfolder", NoShow),
      F("Project status", "status", NoShow),
      F("Project number", "number", NoShow),
      F("Project version", "version", NoShow),
      F("Authors", "author", NoShow),
      F("Project managers", "manager", NoShow),
      F("Inspectors", "tester", NoShow),
      F("Dangerous point/machine", "machinename", NoShow),
      F("Documentation", "documentation", NoShow),
      F("Document", "document", NoShow)>>

sf_Documentation_fields ==
    <<F("Name of safety function", "name", NoShow),
      F("Type of safety function", "sftype", NoShow),
      F("Triggering event", "triggerevent", NoShow),
      F("Reaction and Behaviour on power failure", "reaction", NoShow),
      F("Safe state", "safestate", NoShow),
      F("Operation mode", "opmode", NoShow),
      F("Demand rate", "requestfrequency", NoShow),
      F("Running-on time", "responsetime", NoShow),
      F("Priority", "priority", NoShow),
      F("Documentation", "documentation", NoShow),
      F("Document", "document", NoShow)>>

PLr_fields ==
    <<F(NoTitle, "plrdet", NoShow),
      F("Required Performance Level", "plr", NoShow),
      F("Documentation", "plrdocumentation", NoShow),
      F("Document", "plrdocument", NoShow),
      F("Source", "plrstandard", NoShow),
      F("File", "plrstandardfile", NoShow),
      F("Severity of injury", "riskparams", NoShow),
      F("Frequency and/or exposure times to hazard", "riskparamf", NoShow),
      F("Possibility of avoiding hazard or limiting harm", "riskparamp", NoShow),
      F("Documentation", "plrgraphdocumentation", NoShow),
      F("Document", "plrgraphdocument", NoShow)>>

Documentation_fields ==
    <<F(NoTitle, "name", NoShow),
      F("Reference designator", "equipmentid", NoShow),
      F("Inventory number", "inventoryno", NoShow),
      F("Device Manufacturer", "manufacturer", NoShow),
      F("Device Identifier", "deviceid", NoShow),
      F("Device group", "devicegroup", NoShow),
      F("Part number", "partno", NoShow),
      F("Revision", "revision", NoShow),
      F("Function", "functiontypes", NoShow),
      F("Technology", "technology", NoShow),
      F("Category", "cat", "show_cat"),
      F("Use case", "usecase", NoShow),
      F("Description of the use case", "usecasedocumentation", NoShow),
      F("Documentation", "description", NoShow),
      F("Document", "document", NoShow)>>

PL_fields ==
    <<F(NoTitle, "pldet", NoShow),
      F("Performance Level", "pl", "show_pl"),
      F("Safety Integrity Level", "sil", "show_sil"),
      F("PL/SIL linked to PFHD", "isplpfhbind", "show_common_direct"),
      F("PFHD", "pfh", "show_common_direct"),
      F(NoTitle, "plconditions", "show_plconditions"),
      F("Software suitable up to PL", "pldirectsoftware", "show_software"),
      F("Documentation", "pldocumentation", NoShow),
      F("Mission time", "missiontime", "show_common_direct")>>

Category_fields ==
    <<F("Category of subsystem", "cat", NoShow),
      F("Reduced test frequency", "reducedtestingrate", "show_reduced_test"),
      F("Requirements for the category", "catconditions", "show_requirements"),
      F("Documentation", "catdocumentation", NoShow),
      F("Source", "catstandard", NoShow),
      F("File", "catstandardfile", NoShow)>>

MTTFD_fields ==
    <<F(NoTitle, "mttfddet", NoShow),
      F("MTTFD", "mttfd", "show_mttfd"),
      F("Fault exclusion", "fault_exclusion", "show_direct"),
      F("B10D", "b10d", "show_b10d"),
      F("B10", "b10", "show_b10"),
      F("RDF", "rdfb10", "show_b10"),
      F("nop", "nop", "show_nop"),
      F("d_op", "nopday", "show_nop"),
      F("h_op", "nophour", "show_nop"),
      F("t_cycle", "nopcycle", "show_nop"),
      F("Lambda", "lambda", "show_lambda"),
      F("MTTF", "mttf", "show_mttf"),
      F("MTBF", "mtbf", "show_mtbf"),
      F("RDF", "rdfmttf", "show_rdf_mttf"),
      F("Documentation", "mttfddocumentation", "show_doc"),
      F("Mission time", "missiontime", NoShow)>>

DCavg_fields ==
    <<F(NoTitle, "dcavgdet", NoShow),
      F("Diagnostic coverage", "dcavg", "show_direct"),
      F("Documentation", "dcavgdocumentation", "show_direct")>>

CCF_fields ==
    <<F(NoTitle, "ccfscoredet", NoShow),
      F(NoTitle, "list_measures", "show_measures"),
      F("Total points", "ccfscore", "show_direct"),
      F("Documentation", "ccfdocumentation", NoShow),
      F("Document", "ccfdocument", NoShow)>>

DC_fields ==
    <<F(NoTitle, "dcdet", NoShow),
      F("Diagnostic coverage", "dc", NoShow),
      F("Documentation", "dcdocumentation", NoShow),
      F(NoTitle, "dcmeasureopoid", NoShow),
      F("Documentation", "dcmeasuredocumentation", NoShow)>>

\* The fields class attribute of a tab class.
fields(tab) ==
    CASE tab = "project.Documentation" -> project_Documentation_fields
      [] tab = "sf.Documentation" -> sf_Documentation_fields
      [] tab = "sf.PLr" -> PLr_fields
      [] tab = "doc.Documentation" -> Documentation_fields
      [] tab = "subsystem.PL" -> PL_fields
      [] tab = "subsystem.Category" -> Category_fields
      [] tab \in MTTFDTabs -> MTTFD_fields
      [] tab = "subsystem.DCavg" -> DCavg_fields
      [] tab = "subsystem.CCF" -> CCF_fields
      [] tab = "dc.DC" -> DC_fields

\* The methods a field can name as its source or as its show: the functions
\* found on the tab class that are no properties.
Methods(tab) ==
    CASE tab = "subsystem.PL" ->
            {"pl", "sil", "show_pl", "show_sil", "show_common_direct",
             "show_plconditions", "show_software"}
      [] tab = "subsystem.Category" ->
            {"show", "show_requirements", "show_reduced_test"}
      [] tab \in MTTFDTabs ->
            {"fault_exclusion", "show_mttfd", "show_direct", "show_b10",
             "show_b10d", "show_nop", "show_rdf_mttf", "show_lambda",
             "show_mttf", "show_mtbf", "show_doc"}
            \cup (IF tab = "subsystem.MTTFD" THEN {"show"} ELSE {})
      [] tab = "subsystem.DCavg" -> {"show", "show_direct"}
      [] tab = "subsystem.CCF" ->
            {"show", "show_measures", "show_direct", "list_measures"}
      [] OTHER -> {}

\* The properties found on a tab class that a show can name.
Properties(tab) ==
    CASE tab = "doc.Documentation" -> {"show_cat"}
      [] tab = "element.MTTFD" -> {"show"}
      [] OTHER -> {}

\* The sources x for which the tab class has a format_x method.
Formatters(tab) ==
    {"pl", "cat"} \cup
    CASE tab = "sf.PLr" ->
            {"plrdet", "plr", "riskparams", "riskparamf", "riskparamp"}
      [] tab = "doc.Documentation" -> {"name", "functiontypes", "technology"}
      [] tab = "subsystem.PL" ->
            {"pldet", "isplpfhbind", "pldirectsoftware", "plconditions"}
      [] tab = "subsystem.Category" -> {"reducedtestingrate", "catconditions"}
      [] tab \in MTTFDTabs -> {"mttfddet", "rdfb10", "rdfmttf", "rdf", "nop"}
      [] tab = "subsystem.DCavg" -> {"dcavgdet"}
      [] tab = "subsystem.CCF" -> {"ccfscoredet"}
      [] tab = "dc.DC" -> {"dcdet", "dcmeasureopoid", "dc"}
      [] OTHER -> {}

-----------------------------------------------------------------------------
(* Properties of elements, nodes and tabs *)

\* Python's `and`, `or`, `not` on results: the right operand is evaluated
\* only when the left one does not decide, an exception ends the evaluation.
And(a, b) == IF ~IsOk(a) THEN a ELSE IF a.v THEN b ELSE a
Or(a, b) == IF ~IsOk(a) THEN a ELSE IF a.v THEN a ELSE b
Not(a) == IF ~IsOk(a) THEN a ELSE Ok(~a.v)

\* self.element.attrib[a]
Attrib(e, a) == IF a \in DOMAIN e.attrib THEN Ok(e.attrib[a]) ELSE Raise("KeyError")

\* self.element.attrib[a] == v
AttribIs(e, a, v) == IF a \in DOMAIN e.attrib THEN Ok(e.attrib[a] = v) ELSE Raise("KeyError")

\* Tab.format_cat: the last character of the category code, 'N' standing for
\* an unknown category.
format_cat(raw) ==
    IF raw = <<>> THEN Raise("IndexError")
    ELSE Ok(IF raw[Len(raw)] = "N" THEN <<"Unknown">> ELSE <<raw[Len(raw)]>>)

\* Whether MTTFD is entered directly for this element.
mttfd_direct(e) == AttribIs(e, "mttfddet", <<"detDirect">>)

\* Whether the MTTFD value of this element is the negative number that
\* stands for a fault exclusion.
mttfd_fault_exclusion(e) ==
    IF "mttfd" \notin DOMAIN e.attrib THEN Raise("KeyError")
    ELSE LET f == float_sign(e.attrib["mttfd"])
         IN  IF IsOk(f) THEN Ok(f.v < 0) ELSE f

\* The category letter of this element.
category(e) ==
    IF "cat" \notin DOMAIN e.attrib THEN Raise("KeyError")
    ELSE format_cat(e.attrib["cat"])

\* Tab.parent: the node owning the tab, looked up by the element's OID.
Tab_parent(e) == nodes[oid(e)]

\* An attribute that only Subsystem nodes have, read on node m.
OfSubsystem(m, r) == IF objs[m].type = "Subsystem" THEN r ELSE Raise("AttributeError")

\* Subsystem.pl_from_cat, pl_from_cat_simple and dcavg_direct.
pl_from_cat(m) ==
    OfSubsystem(m, AttribIs(objs[m].element, "pldet",
                            <<"d","e","t","S","u","b","I","t","e","m","s">>))
pl_from_cat_simple(m) ==
    OfSubsystem(m, AttribIs(objs[m].element, "pldet",
        <<"d","e","t","S","u","b","I","t","e","m","s","S","i","m","p","l","e">>))
dcavg_direct(m) == OfSubsystem(m, AttribIs(objs[m].element, "dcavgdet", <<"detDirect">>))

\* Subsystem.show_children
show_children(m) ==
    OfSubsystem(m, Or(Not(mttfd_direct(objs[m].element)), Not(dcavg_direct(m))))

\* Channel.categories: the channel types present in each category.
Channel_categories(cat) ==
    CASE cat = <<"Unknown">> -> Ok({})
      [] cat \in {<<"B">>, <<"1">>} -> Ok({<<"c","h","1">>})
      [] cat = <<"2">> -> Ok({<<"c","h","1">>, <<"c","h","T","e","s","t">>})
      [] cat \in {<<"3">>, <<"4">>} -> Ok({<<"c","h","1">>, <<"c","h","2">>})
      [] OTHER -> Raise("KeyError")

\* Channel.show of channel node n.
Channel_show(n) ==
    LET t == ch_type(objs[n].element)
        p == parent(objs[n].element, objs[n].type)
        cat == category(objs[p.v].element)
        set == Channel_categories(cat.v)
        direct == mttfd_direct(objs[p.v].element)
    IN  IF ~IsOk(t) THEN t
        ELSE IF ~IsOk(p) THEN p
        ELSE IF ~IsOk(cat) THEN cat
        ELSE IF ~IsOk(set) THEN set
        ELSE IF t.v = <<"c","h","T","e","s","t">>
             THEN IF ~IsOk(direct) THEN direct
                  ELSE Ok(t.v \in set.v /\ ~direct.v)
             ELSE Ok(t.v \in set.v)

\* Tab.pl_other and Tab.format_pl.
format_pl(raw) ==
    CASE raw = <<"p","l","N">> -> Ok(<<"-">>)
      [] raw = <<"p","l","U">> -> Ok(<<"n",".","a",".">>)
      [] raw = <<>> -> Raise("IndexError")
      [] OTHER -> Ok(<<Lower(raw[Len(raw)])>>)

\* Tab.int_to_bool called with the name of an attribute: the name itself is
\* converted when the element has no such attribute, and no name is a numeral.
int_to_bool_attr(e, a) ==
    IF a \in DOMAIN e.attrib
    THEN LET i == int(e.attrib[a]) IN IF IsOk(i) THEN Ok(i.v > 0) ELSE i
    ELSE Raise("ValueError")

\* Tab.int_to_bool called with a raw value, which names no attribute.
int_to_bool_raw(raw) == LET i == int(raw) IN IF IsOk(i) THEN Ok(i.v > 0) ELSE i

\* A csv_to_int that does not strip the options.
csv_to_int_unstripped(csv) ==
    LET opts == Split(csv)
        ints == [i \in 1..Len(opts) |-> int(LastChars(opts[i], 2))]
    IN  IF \E i \in 1..Len(opts) : ~IsOk(ints[i]) THEN <<>>
        ELSE [i \in 1..Len(opts) |-> ints[i].v]

\* Tab.csv_to_int: the integer in the last two characters of every option;
\* a ValueError of any option gives the empty list.
csv_to_int(csv) ==
    LET opts == Split(csv)
        ints == [i \in 1..Len(opts) |-> int(LastChars(Strip(opts[i]), 2))]
    IN  IF \E i \in 1..Len(opts) : ~IsOk(ints[i]) THEN <<>>
        ELSE [i \in 1..Len(opts) |-> ints[i].v]

\* Tab.percent: str(float(s) * 100).  The digits Python prints for the
\* product are not computed: the result is the tagged numeral.
percent(raw) ==
    IF IsOk(float_sign(raw)) THEN Ok(<<"str(float(">> \o raw \o <<") * 100)">>)
    ELSE Raise("ValueError")

-----------------------------------------------------------------------------
(* src/ssm2txt/subsystem.py, mttfd.py, element.py, doc.py: the show
   predicates of the tabs, evaluated for the tab bound to element e *)

\* MTTFD.determine_with_b10 and MTTFD.determine_with_mttf
determine_with_b10(e) == AttribIs(e, "mttfddet", <<"detB10D">>)
determine_with_mttf(e) == AttribIs(e, "mttfddet", <<"detMTTF">>)

\* The show methods of subsystem.PL.
PL_show(a, e) ==
    CASE a = "show_pl" ->
            AttribIs(e, "pldet", <<"d","e","t","D","i","r","e","c","t">>)
      [] a = "show_sil" ->
            AttribIs(e, "pldet", <<"d","e","t","S","I","L","D","i","r","e","c","t">>)
      [] a = "show_common_direct" ->
            Or(AttribIs(e, "pldet", <<"d","e","t","D","i","r","e","c","t">>),
               AttribIs(e, "pldet", <<"d","e","t","S","I","L","D","i","r","e","c","t">>))
      [] a = "show_plconditions" ->
            Or(pl_from_cat(Tab_parent(e)), pl_from_cat_simple(Tab_parent(e)))
      [] a = "show_software" ->
            Not(AttribIs(e, "pldet",
                <<"d","e","t","S","u","b","I","t","e","m","s","S","i","m","p","l","e">>))

\* The show methods of subsystem.Category; show is the one of the tab.
Category_show(a, e) ==
    CASE a = "show" ->
            IF "pldet" \in DOMAIN e.attrib
            THEN Ok(~Contains(e.attrib["pldet"], <<"S","I","L">>))
            ELSE Raise("KeyError")
      [] a = "show_requirements" ->
            LET c == category(e) IN IF IsOk(c) THEN Ok(c.v # <<"Unknown">>) ELSE c
      [] a = "show_reduced_test" ->
            LET c == category(e) IN IF IsOk(c) THEN Ok(c.v = <<"2">>) ELSE c

\* The show methods of mttfd.MTTFD.
MTTFD_show(a, e) ==
    CASE a = "show_mttfd" -> And(mttfd_direct(e), Not(mttfd_fault_exclusion(e)))
      [] a = "show_direct" -> mttfd_direct(e)
      [] a = "show_b10" ->
            And(determine_with_b10(e), AttribIs(e, "calcb10ddet", <<"calcB10dB10">>))
      [] a = "show_b10d" ->
            And(determine_with_b10(e), AttribIs(e, "calcb10ddet", <<"calcB10dDirect">>))
      [] a = "show_nop" -> determine_with_b10(e)
      [] a = "show_rdf_mttf" -> determine_with_mttf(e)
      [] a = "show_lambda" ->
            And(determine_with_mttf(e), AttribIs(e, "calcmttfddet", <<"calcMTTFdLambda">>))
      [] a = "show_mttf" ->
            And(determine_with_mttf(e), AttribIs(e, "calcmttfddet", <<"calcMTTFdMTTF">>))
      [] a = "show_mtbf" ->
            And(determine_with_mttf(e), AttribIs(e, "calcmttfddet", <<"calcMTTFdMTBF">>))
      [] a = "show_doc" -> Not(AttribIs(e, "mttfddet", <<"detSubItems">>))

\* self.category in s, for a string s of category letters.
CategoryIn(e, s) ==
    LET c == category(e) IN IF IsOk(c) THEN Ok(Contains(s, c.v)) ELSE c

\* The show methods of subsystem.DCavg; show is the one of the tab.
DCavg_show(a, e) ==
    CASE a = "show" ->
            LET m == Tab_parent(e)
                direct == Not(Or(pl_from_cat(m), pl_from_cat_simple(m)))
                low == CategoryIn(e, <<"B","1">>)
                excl == And(pl_from_cat(m), mttfd_fault_exclusion(objs[m].element))
            IN  IF ~IsOk(direct) THEN direct
                ELSE IF ~IsOk(low) THEN low
                ELSE IF ~IsOk(excl) THEN excl
                ELSE Ok(~direct.v /\ ~low.v /\ ~excl.v)
      [] a = "show_direct" -> dcavg_direct(Tab_parent(e))

\* The show methods of subsystem.CCF; show is the one of the tab.
CCF_show(a, e) ==
    CASE a = "show" ->
            LET m == Tab_parent(e)
                direct == Not(Or(pl_from_cat(m), pl_from_cat_simple(m)))
                high == CategoryIn(e, <<"2","3","4">>)
                excl == And(mttfd_direct(objs[m].element),
                            mttfd_fault_exclusion(objs[m].element))
            IN  IF ~IsOk(direct) THEN direct
                ELSE IF ~IsOk(high) THEN high
                ELSE IF ~IsOk(excl) THEN excl
                ELSE Ok(~direct.v /\ high.v /\ ~excl.v)
      [] a = "show_measures" -> AttribIs(e, "ccfscoredet", <<"detMeasures">>)
      [] a = "show_direct" -> AttribIs(e, "ccfscoredet", <<"detDirect">>)

\* node.parent of node m, for a node of any type.
NodeParent(m) == parent(objs[m].element, objs[m].type)

\* element.MTTFD.show: the subsystem three levels above the element decides.
element_MTTFD_show(e) ==
    LET block == NodeParent(Tab_parent(e))
        channel == NodeParent(block.v)
        subsystem == NodeParent(channel.v)
    IN  IF ~IsOk(block) THEN block
        ELSE IF block.v = None THEN Raise("AttributeError")
        ELSE IF ~IsOk(channel) THEN channel
        ELSE IF channel.v = None THEN Raise("AttributeError")
        ELSE IF ~IsOk(subsystem) THEN subsystem
        ELSE IF subsystem.v = None THEN Raise("AttributeError")
        ELSE Not(mttfd_direct(objs[subsystem.v].element))

\* What calling (a method) or reading (a property) the show named a of a tab
\* bound to element e returns.
ShowValue(tab, a, e) ==
    CASE tab = "doc.Documentation" /\ a = "show_cat" -> Ok(TRUE)
      [] tab = "subsystem.PL" /\ a \in Methods(tab) -> PL_show(a, e)
      [] tab = "subsystem.Category" /\ a \in Methods(tab) -> Category_show(a, e)
      [] tab = "subsystem.MTTFD" /\ a = "show" -> pl_from_cat(Tab_parent(e))
      [] tab = "element.MTTFD" /\ a = "show" -> element_MTTFD_show(e)
      [] tab \in MTTFDTabs /\ a \in Methods(tab) -> MTTFD_show(a, e)
      [] tab = "subsystem.DCavg" /\ a \in Methods(tab) -> DCavg_show(a, e)
      [] tab = "subsystem.CCF" /\ a \in Methods(tab) -> CCF_show(a, e)
      [] OTHER -> Raise("AttributeError")

-----------------------------------------------------------------------------
(* The formatters and value methods of the tabs.  A value of several lines
   (a checklist) holds the line break as a token of its own. *)

NL == <<"\n">>

\* PLr.det_selections and PLr.format_plrdet
format_plrdet(value) ==
    CASE value = <<"detMeasures">> -> Ok(<<"Determine PLr value from risk graph">>)
      [] value = <<"detDirect">> -> Ok(<<"Enter PLr value directly">>)
      [] OTHER -> Raise("KeyError")

\* PLr.risk_params with format_riskparams, format_riskparamf, format_riskparamp
format_riskparam(letter, value) ==
    CASE value = <<"0">> -> Ok(<<letter, "2">>)
      [] value = <<"1">> -> Ok(<<letter, "1">>)
      [] OTHER -> Raise("KeyError")

\* The formatters of sf.PLr.
PLr_format(a, raw) ==
    CASE a = "plrdet" -> format_plrdet(raw)
      [] a = "plr" -> format_pl(raw)
      [] a = "riskparams" -> format_riskparam("S", raw)
      [] a = "riskparamf" -> format_riskparam("F", raw)
      [] a = "riskparamp" -> format_riskparam("P", raw)

\* The order of characters.
Ord(c) ==
    LET abc == <<"0","1","2","3","4","5","6","7","8","9",
                 "A","B","C","D","E","F","G","H","I","J","K","L","M",
                 "N","O","P","Q","R","S","T","U","V","W","X","Y","Z",
                 "a","b","c","d","e","f","g","h","i","j","k","l","m",
                 "n","o","p","q","r","s","t","u","v","w","x","y","z">>
    IN  IF \E i \in 1..Len(abc) : abc[i] = c
        THEN CHOOSE i \in 1..Len(abc) : abc[i] = c ELSE 0

\* x < y for strings
RECURSIVE StrLess(_, _)
StrLess(x, y) ==
    IF y = <<>> THEN FALSE
    ELSE IF x = <<>> THEN TRUE
    ELSE IF Ord(x[1]) # Ord(y[1]) THEN Ord(x[1]) < Ord(y[1])
    ELSE StrLess(Tail(x), Tail(y))

\* list.sort() of strings
RECURSIVE Sort(_)
Sort(l) ==
    IF l = <<>> THEN l
    ELSE LET k == CHOOSE i \in 1..Len(l) :
                      /\ \A j \in 1..Len(l) : ~StrLess(l[j], l[i])
                      /\ \A j \in 1..(i - 1) : StrLess(l[i], l[j])
         IN  <<l[k]>> \o Sort(SubSeq(l, 1, k - 1) \o SubSeq(l, k + 1, Len(l)))

\* Documentation.format_functiontypes: the 'fnc' prefixes stripped, sorted.
format_functiontypes(raw) ==
    LET parts == Split(raw)
    IN  JoinStr(Sort([i \in 1..Len(parts) |-> DropFirst(parts[i], 3)]), <<",", " ">>)

\* The formatters of doc.Documentation.
Documentation_format(a, e, raw) ==
    CASE a = "name" ->
            Ok(<<"Name of ">> \o TypeNameLower(objs[Tab_parent(e)].type) \o <<": ">> \o raw)
      [] a = "functiontypes" -> Ok(format_functiontypes(raw))
      [] a = "technology" -> Ok(LowerStr(DropFirst(raw, 3)))

\* PL.pfhd_linked
pfhd_linked(e) == int_to_bool_attr(e, "isplpfhbind")

\* PL.methods and PL.format_pldet
format_pldet(value) ==
    CASE value = <<"d","e","t","D","i","r","e","c","t">> ->
            Ok(<<"Enter PL/PFHD directly">>)
      [] value = <<"d","e","t","S","I","L","D","i","r","e","c","t">> ->
            Ok(<<"Enter SIL/PFHD directly">>)
      [] value = <<"d","e","t","S","u","b","I","t","e","m","s">> ->
            Ok(<<"Determine PL/PFHD from Category, MTTFD and DCavg">>)
      [] value = <<"d","e","t","S","u","b","I","t","e","m","s","S","i","m","p","l","e">> ->
            Ok(<<"Determine PL/PFHD from Category and DCavg">>)
      [] OTHER -> Raise("KeyError")

\* PL.conditions
PL_conditions ==
    << <<"Behaviour of the safety function under fault conditions">>,
       <<"safety-related software according to clause 4.6 or no software included">>,
       <<"systematic failure">>,
       <<"Ability to perform a safety function under expected environmental conditions">>,
       <<"subsystem is the output part of the SRP/CS">>,
       <<"subsystem consists of mechanical, hydraulic or pneumatic components">>,
       <<"no application-specific reliability data are available for the components">> >>

\* PL.format_plconditions: the checked conditions up to the limit of the
\* determination method, one per line.
format_plconditions(e, value) ==
    LET keys == csv_to_int(value)
        simple == pl_from_cat_simple(Tab_parent(e))
        limit == IF simple.v THEN 7 ELSE 4
        filtered == SelectSeq(keys, LAMBDA k : k <= limit)
    IN  IF ~IsOk(simple) THEN simple
        ELSE IF \E i \in 1..Len(filtered) : filtered[i] \notin DOMAIN PL_conditions
        THEN Raise("KeyError")
        ELSE Ok(JoinStr([i \in 1..Len(filtered) |-> PL_conditions[filtered[i]]], NL))

\* The formatters of subsystem.PL.
PL_format(a, e, raw) ==
    CASE a = "pldet" -> format_pldet(raw)
      [] a = "isplpfhbind" ->
            LET b == pfhd_linked(e) IN IF IsOk(b) THEN Ok(str_bool(b.v)) ELSE b
      [] a = "pldirectsoftware" -> format_pl(raw)
      [] a = "plconditions" -> format_plconditions(e, raw)

\* PL.pl: the performance level, from the attribute the PFHD link selects.
PL_pl(e) ==
    LET linked == pfhd_linked(e)
        raw == Attrib(e, IF linked.v THEN "pldirectbindcal" ELSE "pldirectnobind")
    IN  IF ~IsOk(linked) THEN linked
        ELSE IF ~IsOk(raw) THEN raw
        ELSE format_pl(raw.v)

\* PL.sil: the last character of the SIL attribute the PFHD link selects.
PL_sil(e) ==
    LET linked == pfhd_linked(e)
        raw == Attrib(e, IF linked.v THEN "sildirectbindcal" ELSE "sildirectnobind")
    IN  IF ~IsOk(linked) THEN linked
        ELSE IF ~IsOk(raw) THEN raw
        ELSE IF raw.v = <<>> THEN Raise("IndexError")
        ELSE Ok(IF raw.v[Len(raw.v)] = "N" THEN <<"-">> ELSE <<raw.v[Len(raw.v)]>>)

\* Category.requirements
Category_requirements(k) ==
    CASE k = 1 -> <<"Basic safety principles are being used.">>
      [] k = 2 -> <<"Well-tried components are being used.">>
      [] k = 3 -> <<"Well-tried safety principles are being used.">>
      [] k = 4 -> <<"A single fault tolerance and reasonable fault detection are given.">>
      [] k = 5 -> <<"Accumulation of faults does not lead to a loss of the safety function.">>
      [] k = 6 -> <<"The requirements for the test frequency are satisfied.">>
      [] k = 10 -> <<"Accordance with relevant standards to withstand the expected influences.">>

\* Category.req_show: the categories that include requirement k.
Category_req_show(k) ==
    CASE k = 1 -> <<"B","1","2","3","4">>
      [] k = 2 -> <<"1">>
      [] k = 3 -> <<"1","2","3","4">>
      [] k = 4 -> <<"3","4">>
      [] k = 5 -> <<"4">>
      [] k = 6 -> <<"2">>
      [] k = 10 -> <<"B","1","2","3","4">>

\* Category.format_catconditions: an empty first line, then the checked
\* requirements of the selected category.
format_catconditions(e, raw) ==
    LET keys == csv_to_int(raw)
        c == category(e)
        filtered == SelectSeq(keys, LAMBDA k : Contains(Category_req_show(k), c.v))
    IN  IF keys = <<>> THEN Ok(<<>>)
        ELSE IF ~IsOk(c) THEN c
        ELSE IF \E i \in 1..Len(keys) : keys[i] \notin {1, 2, 3, 4, 5, 6, 10}
        THEN Raise("KeyError")
        ELSE Ok(JoinStr(<< <<>> >> \o [i \in 1..Len(filtered) |->
                                          Category_requirements(filtered[i])], NL))

\* The formatters of subsystem.Category.
Category_format(a, e, raw) ==
    CASE a = "reducedtestingrate" ->
            LET b == int_to_bool_raw(raw) IN IF IsOk(b) THEN Ok(str_bool(b.v)) ELSE b
      [] a = "catconditions" -> format_catconditions(e, raw)

\* The child_type class attribute of the MTTFD tab classes.
child_type(tab) ==
    CASE tab = "subsystem.MTTFD" -> "blocks"
      [] tab = "block.MTTFD" -> "elements"
      [] tab = "element.MTTFD" -> "None"

\* MTTFD.det_methods and MTTFD.format_mttfddet
format_mttfddet(tab, raw) ==
    CASE raw = <<"detSubItems">> -> Ok(<<"Determine MTTFD value from ", child_type(tab)>>)
      [] raw = <<"detDirect">> -> Ok(<<"Enter MTTFD value directly">>)
      [] raw = <<"detB10D">> -> Ok(<<"Determine MTTFD value from B10D/B10 value">>)
      [] raw = <<"detMTTF">> ->
            Ok(<<"Determine MTTFD value from Lambda/MTTF/MTBF and RDF value">>)
      [] OTHER -> Raise("KeyError")

\* A format_nop that gives the marker for zero too.
format_nop_nonpositive(raw) ==
    LET f == float_sign(raw)
    IN  IF ~IsOk(f) THEN f ELSE IF f.v <= 0 THEN Ok(<<"INF">>) ELSE Ok(raw)

\* MTTFD.format_nop: a negative number of operations stands for infinity.
format_nop(raw) ==
    LET f == float_sign(raw)
    IN  IF ~IsOk(f) THEN f ELSE IF f.v < 0 THEN Ok(<<"INF">>) ELSE Ok(raw)

\* MTTFD.fault_exclusion
fault_exclusion(e) ==
    LET x == mttfd_fault_exclusion(e) IN IF IsOk(x) THEN Ok(str_bool(x.v)) ELSE x

\* The formatters of mttfd.MTTFD.
MTTFD_format(tab, a, raw) ==
    CASE a = "mttfddet" -> format_mttfddet(tab, raw)
      [] a \in {"rdfb10", "rdfmttf", "rdf"} -> percent(raw)
      [] a = "nop" -> format_nop(raw)

\* DCavg.det_methods and DCavg.format_dcavgdet
format_dcavgdet(raw) ==
    CASE raw = <<"detSubItems">> -> Ok(<<"Determine DCavg value from blocks">>)
      [] raw = <<"detDirect">> -> Ok(<<"Enter DCavg value directly">>)
      [] OTHER -> Raise("KeyError")

\* CCF.detect and CCF.format_ccfscoredet
format_ccfscoredet(value) ==
    CASE value = <<"detMeasures">> -> Ok(<<"Select applied measures to evaluate CCF">>)
      [] value = <<"detDirect">> -> Ok(<<"Enter CCF evaluation directly">>)
      [] OTHER -> Raise("KeyError")

\* CCF.get_measures_elements: the rows of the ccfmeasureops table that point
\* back to the node owning the tab.
get_measures_elements(e) ==
    SelectSeq(doc, LAMBDA r : /\ r.table = "ccfmeasureops"
                              /\ "componentopoid" \in DOMAIN r.attrib
                              /\ r.attrib["componentopoid"] = oid(objs[Tab_parent(e)].element))

\* CCF.list_measures: type, measure and points of every applied measure.
list_measures(e) ==
    LET ms == get_measures_elements(e)
        three(r) == << <<"Type", ": ">> \o r.attrib["heading"],
                       <<"Measure", ": ">> \o r.attrib["description"],
                       <<"Points", ": ">> \o r.attrib["score"] >>
        RECURSIVE all(_)
        all(l) == IF l = <<>> THEN <<>> ELSE three(l[1]) \o all(Tail(l))
    IN  IF \E i \in 1..Len(ms) :
              {"heading", "description", "score"} \ DOMAIN ms[i].attrib # {}
        THEN Raise("KeyError")
        ELSE Ok(JoinStr(all(ms), NL))

\* DC.methods and DC.format_dcdet
format_dcdet(value) ==
    CASE value = <<"detSubItems">> -> Ok(<<"Determine DC value from elements">>)
      [] value = <<"detDirect">> -> Ok(<<"Enter DC value directly">>)
      [] value = <<"detMeasures">> -> Ok(<<"Select applied measures to evaluate DC">>)
      [] OTHER -> Raise("KeyError")

\* DC.get_measure_element: the first row of any table with the given OID,
\* 0 when there is none.
get_measure_element(o) ==
    LET I == {i \in 1..Len(doc) : oid(doc[i]) = o}
    IN  IF I = {} THEN 0 ELSE CHOOSE i \in I : \A j \in I : i <= j

\* DC.measures_dc
measures_dc(title, r, a) ==
    LET raw == Attrib(r, a)
        pc100 == percent(raw.v)
    IN  IF ~IsOk(raw) THEN raw
        ELSE IF ~IsOk(pc100) THEN pc100
        ELSE Ok(<<title, ": ">> \o pc100.v)

\* DC.insufficient_pl: the performance levels of the measure's list, the
\* empty list when an entry of it is empty.
insufficient_pl(r) ==
    IF "insufficientpls" \notin DOMAIN r.attrib THEN Raise("KeyError")
    ELSE LET parts == Split(r.attrib["insufficientpls"])
             pls == [i \in 1..Len(parts) |-> format_pl(parts[i])]
         IN  IF \E i \in 1..Len(parts) : ~IsOk(pls[i]) THEN Ok(<<>>)
             ELSE Ok(JoinStr([i \in 1..Len(parts) |-> pls[i].v], <<",", " ">>))

\* DC.format_dcmeasureopoid: the fields of the applied measure the attribute
\* refers to.
format_dcmeasureopoid(o) ==
    LET i == get_measure_element(o)
        r == doc[i]
        head == Attrib(r, "heading")
        desc == Attrib(r, "description")
        dmin == measures_dc("DC selection from", r, "dcmin")
        dmax == measures_dc("DC selection to", r, "dcmax")
        dc == measures_dc("Diagnostic coverage", r, "dc")
        pls == insufficient_pl(r)
    IN  IF i = 0 THEN Raise("AttributeError")
        ELSE IF ~IsOk(head) THEN head
        ELSE IF ~IsOk(desc) THEN desc
        ELSE IF ~IsOk(dmin) THEN dmin
        ELSE IF ~IsOk(dmax) THEN dmax
        ELSE IF ~IsOk(dc) THEN dc
        ELSE IF ~IsOk(pls) THEN pls
        ELSE Ok(JoinStr(<< <<"Type of measure:", " ">> \o head.v,
                           <<"Description of measure:", " ">> \o desc.v,
                           dmin.v, dmax.v, dc.v,
                           <<"Measure insufficient for PL: ">> \o pls.v >>, NL))

\* The formatters of dc.DC.
DC_format(a, raw) ==
    CASE a = "dcdet" -> format_dcdet(raw)
      [] a = "dcmeasureopoid" -> format_dcmeasureopoid(raw)
      [] a = "dc" -> percent(raw)

\* formatter(raw_value) for the format_<attrib> method of the tab class; the
\* formatters of the base class are found on every tab.
Format(tab, a, e, raw) ==
    CASE tab = "sf.PLr" /\ a \notin {"pl", "cat"} -> PLr_format(a, raw)
      [] tab = "doc.Documentation" /\ a \notin {"pl", "cat"} ->
            Documentation_format(a, e, raw)
      [] tab = "subsystem.PL" /\ a \notin {"pl", "cat"} -> PL_format(a, e, raw)
      [] tab = "subsystem.Category" /\ a \notin {"pl", "cat"} -> Category_format(a, e, raw)
      [] tab \in MTTFDTabs /\ a \notin {"pl", "cat"} -> MTTFD_format(tab, a, raw)
      [] tab = "subsystem.DCavg" /\ a \notin {"pl", "cat"} -> format_dcavgdet(raw)
      [] tab = "subsystem.CCF" /\ a \notin {"pl", "cat"} -> format_ccfscoredet(raw)
      [] tab = "dc.DC" /\ a \notin {"pl", "cat"} -> DC_format(a, raw)
      [] a = "pl" -> format_pl(raw)
      [] a = "cat" -> format_cat(raw)

\* method() for a field whose source names a method of the tab.
CallMethod(tab, a, e) ==
    CASE tab = "subsystem.PL" /\ a = "pl" -> PL_pl(e)
      [] tab = "subsystem.PL" /\ a = "sil" -> PL_sil(e)
      [] tab \in MTTFDTabs /\ a = "fault_exclusion" -> fault_exclusion(e)
      [] tab = "subsystem.CCF" /\ a = "list_measures" -> list_measures(e)
      [] OTHER -> Ok(<<"<bound method>">>)

-----------------------------------------------------------------------------
(* src/ssm2txt/base.py: rendering of fields, tabs and nodes *)

\* getattr(self, field.show): a method is found as a bound method, which is
\* true; a property is evaluated.
GetShow(tab, a, e) ==
    IF a \in Methods(tab) THEN Ok(TRUE)
    ELSE IF a \in Properties(tab) THEN ShowValue(tab, a, e)
    ELSE Raise("AttributeError")

\* A show_field that looks at the show alone and not at the source.
show_field_any_source(tab, e, f) ==
    IF f.show = NoShow THEN Ok(TRUE) ELSE GetShow(tab, f.show, e)

\* Tab.show_field: the source of the field is an attribute of the element or
\* is found on the tab, and the show, if the field names one, is true.
show_field(tab, e, f) ==
    Then(IF f.show = NoShow THEN Ok(TRUE) ELSE GetShow(tab, f.show, e),
         LAMBDA show :
            Ok((f.attrib \in DOMAIN e.attrib \/ f.attrib \in Methods(tab)) /\ show))

\* A field_value that prefers the method of the tab to the attribute of the
\* row.
field_value_method_first(tab, e, a) ==
    Then(IF a \in Methods(tab) THEN CallMethod(tab, a, e)
         ELSE IF a \in DOMAIN e.attrib THEN Ok(e.attrib[a])
         ELSE Raise("AttributeError"),
         LAMBDA raw :
            IF a \in Formatters(tab) THEN Format(tab, a, e, raw) ELSE Ok(raw))

\* Tab.field_value: the attribute of that name if the element has it, else
\* the result of the method of that name; passed through format_<attrib>
\* when the tab has such a method.
field_value(tab, e, a) ==
    Then(IF a \in DOMAIN e.attrib THEN Ok(e.attrib[a])
         ELSE IF a \in Methods(tab) THEN CallMethod(tab, a, e)
         ELSE Raise("AttributeError"),
         LAMBDA raw :
            IF a \in Formatters(tab) THEN Format(tab, a, e, raw) ELSE Ok(raw))

\* The exception r, raised while field a of the tab of node n was rendered.
RaisedAt(r, n, tab, a) == [r EXCEPT !.node = n, !.tab = tab, !.attrib = a]

\* Whether one of the results rs is an exception, and the index of the first.
AnyRaised(rs) == \E i \in 1..Len(rs) : ~IsOk(rs[i])
FirstRaised(rs) ==
    CHOOSE i \in 1..Len(rs) : ~IsOk(rs[i]) /\ \A j \in 1..(i - 1) : IsOk(rs[j])

\* The fields fs for which show_field returned true, shows being what it
\* returned for each.
RECURSIVE shown_fields(_, _)
shown_fields(fs, shows) ==
    IF fs = <<>> THEN <<>>
    ELSE (IF shows[1].v THEN <<fs[1]>> ELSE <<>>) \o shown_fields(Tail(fs), Tail(shows))

\* Tab.get_field_content, the loop over the shown fields: one line for each,
\* values being what field_value returned for them.
field_lines(tab, n, shown, values) ==
    IF AnyRaised(values)
    THEN RaisedAt(values[FirstRaised(values)], n, tab, shown[FirstRaised(values)].attrib)
    ELSE IF shown = <<>> THEN Ok(<<Line("nofield", n, tab, "", <<>>)>>)
    ELSE Ok([i \in 1..Len(shown) |->
                Line("field", n, tab, shown[i].attrib,
                     IF shown[i].title # NoTitle
                     THEN <<shown[i].title, ": ">> \o values[i].v
                     ELSE values[i].v)])

\* Tab.get_field_content, the selection of the shown fields among fs, shows
\* being what show_field returned for each.
select_fields(tab, n, fs, shows) ==
    IF AnyRaised(shows)
    THEN RaisedAt(shows[FirstRaised(shows)], n, tab, fs[FirstRaised(shows)].attrib)
    ELSE field_lines(tab, n, shown_fields(fs, shows),
                     [i \in 1..Len(shown_fields(fs, shows)) |->
                         field_value(tab, objs[n].element,
                                     shown_fields(fs, shows)[i].attrib)])

\* Tab.get_field_content of the tab bound to the element of node n: the
\* shown fields are selected first, then one line is made for each.
get_field_content(tab, n) ==
    select_fields(tab, n, fields(tab),
                  [i \in 1..Len(fields(tab)) |->
                      show_field(tab, objs[n].element, fields(tab)[i])])

\* Tab.__str__: the title of the tab, the rule under it and the fields.
Tab_str(tab, n) ==
    Then(get_field_content(tab, n), LAMBDA content :
    Ok(<<Line("tabtitle", n, tab, "", <<Tab_BORDER_LEFT, " ", TabName(tab)>>),
         Line("tabrule", n, tab, "",
              <<Tab_BORDER_CORNER>> \o Rep(Tab_BORDER_BOTTOM, TabRuleWidth))>>
       \o content))

\* sep.join of the strings rs, made one after the other: the first exception
\* raised while making them ends it.
Joined(rs, blank) ==
    IF AnyRaised(rs) THEN rs[FirstRaised(rs)]
    ELSE Ok(JoinText([i \in 1..Len(rs) |-> rs[i].v], blank))

\* Node.get_tab_content: every tab of the node's type, an empty line between
\* two of them.
get_tab_content(n) ==
    Joined([i \in 1..Len(tabs(objs[n].type)) |-> Tab_str(tabs(objs[n].type)[i], n)], 1)

\* Node.get_content: the title block, then the tabs.
get_content(n) ==
    Then(path_str(n), LAMBDA title :
    Then(get_tab_content(n), LAMBDA content :
    Ok(title \o content)))

\* A Node.__str__ that returns the empty string for a node without tabs.
RECURSIVE Node_str_tabbed_only(_)
Node_str_tabbed_only(n) ==
    IF tabs(objs[n].type) = <<>> THEN Ok(<<EmptyLine>>)
    ELSE Joined(<<get_content(n)>>
                \o [i \in 1..Len(objs[n].children) |->
                       Node_str_tabbed_only(objs[n].children[i])], 2)

\* Node.__str__: the content of the node if its type has tabs, then every
\* child in the order of the children list, two empty lines between them.
RECURSIVE Node_str(_)
Node_str(n) ==
    Joined((IF tabs(objs[n].type) # <<>> THEN <<get_content(n)>> ELSE <<>>)
           \o [i \in 1..Len(objs[n].children) |-> Node_str(objs[n].children[i])], 2)

-----------------------------------------------------------------------------
(* src/ssm2txt/__main__.py: SSM.write *)

NoFile == [exists |-> FALSE, content |-> <<>>]
OldFile == [exists |-> TRUE, content |-> <<Line("old", 0, "", "", <<"an earlier report">>)>>]

\* SSM.write: open(self.output_filename, 'w') creates or truncates the file.
Open ==
    /\ pc = "write"
    /\ file' = [exists |-> TRUE, content |-> <<>>]
    /\ pc' = "str"
    /\ UNCHANGED <<doc, pos, objs, nodes, prj, file0, out, err, call>>

\* A write whose rendering takes the children out of the children lists.
Write_consuming ==
    /\ pc = "str"
    /\ LET r == Node_str(prj)
       IN  IF IsOk(r)
           THEN /\ out' = r.v
                /\ file' = [exists |-> TRUE, content |-> r.v]
                /\ pc' = "done"
                /\ UNCHANGED err
           ELSE /\ pc' = "failed"
                /\ err' = [exc |-> r.exc, at |-> "write", node |-> r.node,
                           tab |-> r.tab, attrib |-> r.attrib]
                /\ UNCHANGED <<out, file>>
    /\ objs' = [i \in DOMAIN objs |-> [objs[i] EXCEPT !.children = <<>>]]
    /\ UNCHANGED <<doc, pos, nodes, prj, file0, call>>

\* SSM.write: f.write(str(self)) with SSM.__str__, the string of the project
\* node; an exception leaves the with block, which closes the file.
Write ==
    /\ pc = "str"
    /\ LET r == Node_str(prj)
       IN  IF IsOk(r)
           THEN /\ out' = r.v
                /\ file' = [exists |-> TRUE, content |-> r.v]
                /\ pc' = "done"
                /\ UNCHANGED err
           ELSE /\ pc' = "failed"
                /\ err' = [exc |-> r.exc, at |-> "write", node |-> r.node,
                           tab |-> r.tab, attrib |-> r.attrib]
                /\ UNCHANGED <<out, file>>
    /\ UNCHANGED <<doc, pos, objs, nodes, prj, file0, call>>

-----------------------------------------------------------------------------
(* The documents explored *)

\* A row element of a table: the table_name of its table and its attributes.
Row(table, attrib) == [table |-> table, attrib |-> attrib]

\* The OID written for the number i.
Num(i) == <<ToString(i)>>

\* Rows of which only the structure matters: projects and safety functions
\* over the OIDs 1..MaxOid, with any parent reference over these OIDs or (for
\* one of them) none, and a row of a table that has no row type.
ProjectRows ==
    {Row("projectops", ("oid" :> Num(o)) @@ ("name" :> <<"Demo">>)) : o \in 1..MaxOid}
SfRows ==
    {Row("sfops", ("oid" :> Num(o)) @@ ("name" :> <<"Stop">>)
                  @@ ("projectopoid" :> Num(p))) : o \in 1..MaxOid, p \in 1..MaxOid}
    \cup {Row("sfops", ("oid" :> Num(MaxOid)) @@ ("name" :> <<"Stop">>))}
OtherRows == {Row("documentops", ("oid" :> Num(1)) @@ ("name" :> <<"Doc">>))}
StructRows == ProjectRows \cup SfRows \cup OtherRows

\* Every document of at most MaxRows such rows.
StructDocs == UNION {[1..k -> StructRows] : k \in 0..MaxRows}

\* The project row of the demonstration project.
demoProject ==
    Row("projectops", ("oid" :> <<"p">>)
        @@ ("name" :> <<"Demo">>))

\* A safety function whose PLr is entered directly.
sfDirect ==
    Row("sfops", ("oid" :> <<"s">>)
        @@ ("name" :> <<"Stop">>)
        @@ ("projectopoid" :> <<"p">>)
        @@ ("plrdet" :> <<"detDirect">>)
        @@ ("plr" :> <<"p","l","C">>))

\* A safety function with direct entry that also carries risk graph attributes.
sfDirectGraph ==
    Row("sfops", ("oid" :> <<"s">>)
        @@ ("name" :> <<"Stop">>)
        @@ ("projectopoid" :> <<"p">>)
        @@ ("plrdet" :> <<"detDirect">>)
        @@ ("plr" :> <<"p","l","C">>)
        @@ ("riskparams" :> <<"0">>)
        @@ ("riskparamf" :> <<"1">>)
        @@ ("riskparamp" :> <<"0">>)
        @@ ("plrgraphdocumentation" :> <<"graph">>))

\* A safety function whose PLr comes from the risk graph and that also carries a directly entered PLr.
sfGraph ==
    Row("sfops", ("oid" :> <<"s">>)
        @@ ("name" :> <<"Stop">>)
        @@ ("projectopoid" :> <<"p">>)
        @@ ("plrdet" :> <<"detMeasures">>)
        @@ ("plr" :> <<"p","l","D">>)
        @@ ("plrdocumentation" :> <<"direct">>)
        @@ ("riskparams" :> <<"1">>)
        @@ ("riskparamf" :> <<"0">>)
        @@ ("riskparamp" :> <<"1">>))

\* The subsystem of the demonstration project: category B, PL entered directly as c.
sbDemo ==
    Row("componentops", ("oid" :> <<"c">>)
        @@ ("name" :> <<"Sub">>)
        @@ ("sfopoid" :> <<"s">>)
        @@ ("cat" :> <<"c","a","t","B">>)
        @@ ("pldet" :> <<"d","e","t","D","i","r","e","c","t">>)
        @@ ("pldirectnobind" :> <<"p","l","C">>)
        @@ ("isplpfhbind" :> <<"0">>))

\* A subsystem with every directly entered value, its MTTFD the fault exclusion sentinel.
sbDirect ==
    Row("componentops", ("oid" :> <<"c">>)
        @@ ("name" :> <<"Sub">>)
        @@ ("sfopoid" :> <<"s">>)
        @@ ("cat" :> <<"c","a","t","B">>)
        @@ ("pldet" :> <<"d","e","t","D","i","r","e","c","t">>)
        @@ ("pldirectnobind" :> <<"p","l","C">>)
        @@ ("isplpfhbind" :> <<"0">>)
        @@ ("sildirectnobind" :> <<"s","i","l","N">>)
        @@ ("mttfddet" :> <<"detDirect">>)
        @@ ("mttfd" :> <<"-","1">>)
        @@ ("b10" :> <<"5">>)
        @@ ("dcavgdet" :> <<"detDirect">>)
        @@ ("ccfscoredet" :> <<"detDirect">>))

\* A subsystem of category 3 whose level is entered as a SIL.
sbSIL ==
    Row("componentops", ("oid" :> <<"c">>)
        @@ ("name" :> <<"Sub">>)
        @@ ("sfopoid" :> <<"s">>)
        @@ ("cat" :> <<"c","a","t","3">>)
        @@ ("pldet" :> <<"d","e","t","S","I","L","D","i","r","e","c","t">>)
        @@ ("pldirectnobind" :> <<"p","l","D">>)
        @@ ("isplpfhbind" :> <<"0">>)
        @@ ("sildirectnobind" :> <<"s","i","l","2">>)
        @@ ("mttfddet" :> <<"detDirect">>)
        @@ ("mttfd" :> <<"1","0","0">>)
        @@ ("dcavgdet" :> <<"detDirect">>)
        @@ ("dcavg" :> <<"90">>)
        @@ ("ccfscoredet" :> <<"detDirect">>)
        @@ ("ccfscore" :> <<"65">>))

\* A subsystem of category 2 whose level is determined from its blocks.
sbSubItems ==
    Row("componentops", ("oid" :> <<"c">>)
        @@ ("name" :> <<"Sub">>)
        @@ ("sfopoid" :> <<"s">>)
        @@ ("cat" :> <<"c","a","t","2">>)
        @@ ("pldet" :> <<"d","e","t","S","u","b","I","t","e","m","s">>)
        @@ ("pldirectnobind" :> <<"p","l","C">>)
        @@ ("isplpfhbind" :> <<"0">>)
        @@ ("sildirectnobind" :> <<"s","i","l","1">>)
        @@ ("mttfddet" :> <<"detSubItems">>)
        @@ ("mttfd" :> <<"3","0">>)
        @@ ("dcavgdet" :> <<"detSubItems">>)
        @@ ("ccfscoredet" :> <<"detMeasures">>))

\* A channel of type ch1.
ch1 ==
    Row("channelops", ("oid" :> <<"h">>)
        @@ ("componentopoid" :> <<"c">>)
        @@ ("channeltype" :> <<"c","h","1">>))

\* A channel of type ch2.
ch2 ==
    Row("channelops", ("oid" :> <<"h">>)
        @@ ("componentopoid" :> <<"c">>)
        @@ ("channeltype" :> <<"c","h","2">>))

\* A channel of type chTest.
chTest ==
    Row("channelops", ("oid" :> <<"h">>)
        @@ ("componentopoid" :> <<"c">>)
        @@ ("channeltype" :> <<"c","h","T","e","s","t">>))

\* A block with direct entries that also carries the documentation of an applied measure.
blDirect ==
    Row("blocops", ("oid" :> <<"b">>)
        @@ ("name" :> <<"Blk">>)
        @@ ("parentopoid" :> <<"h">>)
        @@ ("mttfddet" :> <<"detDirect">>)
        @@ ("mttfd" :> <<"1","0","0">>)
        @@ ("dcdet" :> <<"detDirect">>)
        @@ ("dc" :> <<"0",".","5">>)
        @@ ("dcmeasuredocumentation" :> <<"applied">>))

\* A block with direct MTTFD entry and the fault exclusion sentinel.
blExclusion ==
    Row("blocops", ("oid" :> <<"b">>)
        @@ ("name" :> <<"Blk">>)
        @@ ("parentopoid" :> <<"h">>)
        @@ ("mttfddet" :> <<"detDirect">>)
        @@ ("mttfd" :> <<"-","1">>)
        @@ ("b10" :> <<"5">>)
        @@ ("nop" :> <<"1","2",".","5">>)
        @@ ("mttf" :> <<"40">>)
        @@ ("dcdet" :> <<"detDirect">>)
        @@ ("dc" :> <<"0",".","9">>))

\* A block whose MTTFD is determined from B10 and that also carries a Lambda.
blB10D ==
    Row("blocops", ("oid" :> <<"b">>)
        @@ ("name" :> <<"Blk">>)
        @@ ("parentopoid" :> <<"h">>)
        @@ ("mttfddet" :> <<"detB10D">>)
        @@ ("calcb10ddet" :> <<"calcB10dB10">>)
        @@ ("mttfd" :> <<"7","5">>)
        @@ ("b10" :> <<"5">>)
        @@ ("b10d" :> <<"10">>)
        @@ ("lambda" :> <<"7">>)
        @@ ("dcdet" :> <<"detMeasures">>)
        @@ ("dc" :> <<"0",".","6">>)
        @@ ("dcdocumentation" :> <<"direct">>))

\* An element with direct MTTFD entry.
elDirect ==
    Row("elementops", ("oid" :> <<"e">>)
        @@ ("name" :> <<"Elm">>)
        @@ ("parentopoid" :> <<"b">>)
        @@ ("mttfddet" :> <<"detDirect">>)
        @@ ("mttfd" :> <<"5","0">>))

\* An element whose MTTFD is determined from a MTTF given as Lambda.
elMTTF ==
    Row("elementops", ("oid" :> <<"e">>)
        @@ ("name" :> <<"Elm">>)
        @@ ("parentopoid" :> <<"b">>)
        @@ ("mttfddet" :> <<"detMTTF">>)
        @@ ("calcmttfddet" :> <<"calcMTTFdLambda">>)
        @@ ("mttfd" :> <<"2","0">>)
        @@ ("lambda" :> <<"3">>)
        @@ ("b10" :> <<"8">>))

\* The variants of each level of a project.
SfVariants == {sfDirect, sfDirectGraph, sfGraph}
SbVariants == {sbDemo, sbDirect, sbSIL, sbSubItems}
ChVariants == {ch1, ch2, chTest}
BlVariants == {blDirect, blExclusion, blB10D}
ElVariants == {elDirect, elMTTF}

\* The documents of one project with one row per level, cut at any level.
ChainDocs ==
    {SubSeq(<<demoProject, sf, sb, ch, bl, el>>, 1, k) :
        sf \in SfVariants, sb \in SbVariants, ch \in ChVariants,
        bl \in BlVariants, el \in ElVariants, k \in 1..6}

\* The document of the demonstration project.
DemoDoc == <<demoProject, sfDirect, sbDemo>>

\* Rows whose parent reference names a node of another level: a subsystem
\* that names the project, and an element that names the channel.
sbUnderProject == [sbDirect EXCEPT !.attrib["sfopoid"] = <<"p">>]
elUnderChannel == [elDirect EXCEPT !.attrib["parentopoid"] = <<"h">>]

\* Documents with such a row.
MisplacedDocs ==
    {<<demoProject, sbUnderProject>>,
     <<demoProject, sfDirect, sbUnderProject>>,
     <<demoProject, sfDirect, sbDirect, ch1, elUnderChannel>>,
     <<demoProject, sfDirect, sbSubItems, ch1, blDirect, elUnderChannel>>}

\* A second safety function, a second channel, a second block of channel h
\* (its name and OID sort before those of the first) and a block of the
\* second channel.
sfAlt == [sfDirect EXCEPT !.attrib["oid"] = <<"r">>, !.attrib["name"] = <<"Alt">>]
chG == [ch2 EXCEPT !.attrib["oid"] = <<"g">>]
blAlt == [blDirect EXCEPT !.attrib["oid"] = <<"a">>, !.attrib["name"] = <<"Alt">>]
blUnderG == [blDirect EXCEPT !.attrib["oid"] = <<"d">>, !.attrib["parentopoid"] = <<"g">>]

\* Documents in which a node has several children.
SiblingDocs ==
    {<<demoProject, sfDirect, sfAlt, sbDirect>>,
     <<demoProject, sfDirect, sbSubItems, ch1, blDirect, blAlt, elDirect>>,
     <<demoProject, sfDirect, sbSIL, ch1, chG, blUnderG>>,
     <<demoProject, sfDirect, sbSIL, ch1, chG, blDirect, blUnderG>>}

\* The performance-level codes.
PLCodes == {<<"p","l",c>> : c \in {"A", "B", "C", "D", "E", "N", "U"}}

\* A safety function whose directly entered PLr is the code pl, and a
\* subsystem with direct entry whose software level is the code pl and whose
\* performance level is the code pl in the attribute that the PFHD link
\* (isplpfhbind = linked) selects, the other attribute holding plB.
sfPL(pl) == [sfDirect EXCEPT !.attrib["plr"] = pl]
sbPL(pl, linked) ==
    Row("componentops",
        ("isplpfhbind" :> linked)
        @@ ("pldirectnobind" :> IF linked = <<"0">> THEN pl ELSE <<"p","l","B">>)
        @@ ("pldirectbindcal" :> IF linked = <<"0">> THEN <<"p","l","B">> ELSE pl)
        @@ ("sildirectbindcal" :> <<"s","i","l","N">>)
        @@ ("pldirectsoftware" :> pl)
        @@ sbDirect.attrib)

\* Documents with every performance-level code in these fields.
PLDocs ==
    {<<demoProject, sfPL(pl), sbPL(pl, linked)>> :
        pl \in PLCodes, linked \in {<<"0">>, <<"1">>}}

\* A subsystem row with an attribute named like the method PL.sil.
sbShadow == Row("componentops", ("sil" :> <<"raw">>) @@ sbDirect.attrib)

\* A document with this row.
ShadowDocs == {<<demoProject, sfDirect, sbShadow>>}

\* A second project row, and a safety function of the second project.
otherProject == [demoProject EXCEPT !.attrib["oid"] = <<"q">>, !.attrib["name"] = <<"Other">>]
sfOther == [sfDirect EXCEPT !.attrib["projectopoid"] = <<"q">>]

\* Documents whose project table has two rows.
TwoProjectDocs ==
    {<<demoProject, otherProject, sfOther>>,
     <<demoProject, otherProject, sfDirect, sbDirect>>}

Docs ==
    StructDocs \cup ChainDocs \cup MisplacedDocs \cup SiblingDocs \cup PLDocs
    \cup ShadowDocs \cup TwoProjectDocs

-----------------------------------------------------------------------------
(* The run: SSM(ssm_filename).write() *)

\* No function is called on its own during a run.
NoCall == [fn |-> "", arg |-> <<>>, toks |-> <<>>, neg |-> FALSE,
           returned |-> FALSE, ret |-> Ok(<<>>)]

Init ==
    /\ doc \in Docs
    /\ pos = 1
    /\ objs = <<>>
    /\ nodes = <<>>
    /\ prj = None
    /\ pc = "read"
    /\ file0 \in {NoFile, OldFile}
    /\ file = file0
    /\ out = NoText
    /\ err = NoErr
    /\ call = NoCall

Next == NodeInit \/ IgnoreTable \/ GetProject \/ Open \/ Write

Spec == Init /\ [][Next]_vars

-----------------------------------------------------------------------------
(* The converters and formatters called on their own *)

\* Bound of the checklists explored: the number of options of a checklist.
MaxTokens == 2

\* Options of a checklist attribute that end, once stripped, in a two-digit
\* code, and options that do not.
CsvGood ==
    {<<"o","p","t","A","0","1">>, <<"o","p","t","B","0","2">>,
     <<"x","1","0"," ">>, <<" ","9","9">>, <<"4","2">>}
CsvBad == {<<>>, <<"o","p","t">>, <<"1","a">>}

\* The checklists explored: up to MaxTokens options, joined by ',' or ', '.
CsvCalls ==
    {[fn |-> "csv_to_int", arg |-> JoinStr(toks, sep), toks |-> toks, neg |-> FALSE,
      returned |-> FALSE, ret |-> Ok(<<>>)] :
        toks \in UNION {[1..k -> CsvGood \cup CsvBad] : k \in 1..MaxTokens},
        sep \in {<<",">>, <<",", " ">>}}

\* Decimal numerals: a magnitude, zero or not, with or without a sign.
ZeroMagnitudes == {<<"0">>, <<"0",".","0">>}
Magnitudes ==
    ZeroMagnitudes \cup {<<"1">>, <<"5">>, <<"1","2",".","5">>, <<"0",".","5">>,
                        <<"1","0","0">>}
NopCalls ==
    {[fn |-> "format_nop", arg |-> sign \o m, toks |-> <<>>,
      neg |-> (sign = <<"-">> /\ m \notin ZeroMagnitudes),
      returned |-> FALSE, ret |-> Ok(<<>>)] :
        sign \in {<<>>, <<"-">>, <<"+">>}, m \in Magnitudes}

\* tab.csv_to_int(arg) on its own.
Call_csv_to_int ==
    /\ call.fn = "csv_to_int"
    /\ ~call.returned
    /\ call' = [call EXCEPT !.returned = TRUE, !.ret = Ok(csv_to_int(call.arg))]
    /\ UNCHANGED <<doc, pos, objs, nodes, prj, pc, file, file0, out, err>>

\* tab.format_nop(arg) on its own.
Call_format_nop ==
    /\ call.fn = "format_nop"
    /\ ~call.returned
    /\ call' = [call EXCEPT !.returned = TRUE, !.ret = format_nop(call.arg)]
    /\ UNCHANGED <<doc, pos, objs, nodes, prj, pc, file, file0, out, err>>

InitFn ==
    /\ doc = <<>>
    /\ pos = 1
    /\ objs = <<>>
    /\ nodes = <<>>
    /\ prj = None
    /\ pc = "call"
    /\ file0 = NoFile
    /\ file = file0
    /\ out = NoText
    /\ err = NoErr
    /\ call \in CsvCalls \cup NopCalls

NextFn == Call_csv_to_int \/ Call_format_nop

SpecFn == InitFn /\ [][NextFn]_vars

-----------------------------------------------------------------------------
(* Tree assembly: the properties checked *)

\* Row i of the document is handed to a constructor, and its type has a
\* parent reference.
Constructed(i) == doc[i].table \in DOMAIN tables
NonRoot(type) == type \in DOMAIN parent_attr
ParentRef(i) == doc[i].attrib[parent_attr[tables[doc[i].table]]]

\* Every non-root row names, by its parent reference, the OID of a row
\* constructed before it.
WellOrdered ==
    \A i \in 1..Len(doc) :
        Constructed(i) /\ NonRoot(tables[doc[i].table]) =>
            /\ parent_attr[tables[doc[i].table]] \in DOMAIN doc[i].attrib
            /\ \E j \in 1..(i - 1) : Constructed(j) /\ oid(doc[j]) = ParentRef(i)

\* The places <<m, i>> where node n stands in a children list.
Holders(n) ==
    {h \in UNION {{<<m, i>> : i \in 1..Len(objs[m].children)} : m \in 1..Len(objs)} :
        objs[h[1]].children[h[2]] = n}

\* The nodes constructed before n whose OID is the parent reference of n.
Named(n) ==
    {m \in 1..(n - 1) :
        oid(objs[m].element) = objs[n].element.attrib[parent_attr[objs[n].type]]}

\* C1: in a document where every non-root row names the OID of a row
\* constructed earlier, assembly raises no error, and every non-root node
\* constructed stands exactly once in a children list: in that of the node
\* its parent reference named when it was constructed (the latest node
\* constructed before it with that OID), and in no other.
C1_AssemblyOfOrderedDocument ==
    WellOrdered =>
        /\ err.at # "read_tables"
        /\ \A n \in 1..Len(objs) :
              NonRoot(objs[n].type) =>
                  /\ Named(n) # {}
                  /\ Cardinality(Holders(n)) = 1
                  /\ \A h \in Holders(n) :
                        h[1] \in Named(n) /\ \A m \in Named(n) : m <= h[1]

\* C1 witness: assembly of an ordered document has ended, and one node has
\* been given two children.
C1_Witness ==
    /\ WellOrdered
    /\ pc = "write"
    /\ \E m \in 1..Len(objs) : Len(objs[m].children) = 2

\* The next row is of a non-root type and its parent reference names an OID
\* that is no key of the OID mapping.
Unresolved ==
    /\ pc = "read"
    /\ pos <= Len(doc)
    /\ Constructed(pos)
    /\ NonRoot(tables[doc[pos].table])
    /\ parent_attr[tables[doc[pos].table]] \in DOMAIN doc[pos].attrib
    /\ ParentRef(pos) \notin DOMAIN nodes

\* C2: the construction of a row whose parent reference is no key of the OID
\* mapping fails: the step ends the run with the row not constructed, no
\* later row read, nothing rendered and the output file as it was; and no
\* step is ever taken from a failed run.
C2_UnresolvedParentIsFatal ==
    [][/\ pc # "failed"
       /\ Unresolved =>
            /\ pc' = "failed"
            /\ err'.exc = "KeyError" /\ err'.at = "read_tables"
            /\ pos' = pos /\ objs' = objs /\ nodes' = nodes
            /\ prj' = None /\ out' = NoText /\ file' = file0]_vars

\* C2 witness: the run has failed on a row with an unresolved parent
\* reference while rows were left to read.
C2_Witness ==
    /\ pc = "failed"
    /\ err.at = "read_tables"
    /\ pos < Len(doc)
    /\ Constructed(pos)
    /\ parent_attr[tables[doc[pos].table]] \in DOMAIN doc[pos].attrib
    /\ ParentRef(pos) \notin DOMAIN nodes
    /\ out = NoText /\ file = file0

\* The type of the parent of a node of each type that has a parent.
parent_type ==
    [SafetyFunction |-> "Project", Subsystem |-> "SafetyFunction",
     Channel |-> "Subsystem", Block |-> "Channel", Element |-> "Block"]

\* C11: once the tree is assembled, every node that stands in a children
\* list stands in that of a node of the type one level above its own: a
\* safety function in that of the project, a subsystem in that of a safety
\* function, a channel in that of a subsystem, a block in that of a channel,
\* an element in that of a block.
C11_ParentOfExpectedType ==
    pc \in {"write", "str", "done"} =>
        \A n \in 1..Len(objs) : \A h \in Holders(n) :
            objs[h[1]].type = parent_type[objs[n].type]

-----------------------------------------------------------------------------
(* Rendering: the properties checked *)

\* The nodes of the subtree of node n, by the children lists.
RECURSIVE Subtree(_)
Subtree(n) ==
    {n} \cup UNION {Subtree(objs[n].children[i]) : i \in 1..Len(objs[n].children)}

\* The visibility predicate of a node: Channel.show for a channel, true for
\* the other types, which define none.
NodeVisible(n) == IF objs[n].type = "Channel" THEN Channel_show(n) ELSE Ok(TRUE)

\* The show predicate of a tab bound to element e, true for a tab class that
\* defines none.
TabShow(tab, e) ==
    IF "show" \in Methods(tab) \cup Properties(tab)
    THEN ShowValue(tab, "show", e) ELSE Ok(TRUE)

\* The node, a tab of it, a field of that tab has a line in the report.
Rendered(n) == \E i \in 1..Len(out) : out[i].node = n
TabEmitted(n, tab) ==
    \E i \in 1..Len(out) : out[i].node = n /\ out[i].tab = tab /\ out[i].k = "tabtitle"
FieldEmitted(n, tab, a) ==
    \E i \in 1..Len(out) :
        out[i].node = n /\ out[i].tab = tab /\ out[i].k = "field" /\ out[i].attrib = a

\* The tabs of node n, the field specifications of a tab, and the one of the
\* field with source a.
TabsOf(n) == {tabs(objs[n].type)[i] : i \in 1..Len(tabs(objs[n].type))}
FieldsOf(tab) == {fields(tab)[i] : i \in 1..Len(fields(tab))}
FieldSpec(tab, a) == CHOOSE f \in FieldsOf(tab) : f.attrib = a

\* The source of a field is an attribute of the row of node n or is found
\* on the tab.
SourceExists(n, tab, a) ==
    a \in DOMAIN objs[n].element.attrib \/ a \in Methods(tab)

\* C3: a node whose visibility predicate is false has no line in the report,
\* and neither has any node of its subtree.
C3_InvisibleNodeSkipped ==
    pc = "done" =>
        \A n \in 1..Len(objs) :
            IsOk(NodeVisible(n)) /\ ~NodeVisible(n).v =>
                \A m \in Subtree(n) : ~Rendered(m)

\* C4: for every rendered node and every tab of its type, the tab is in the
\* report if and only if the show predicate of the tab is true.
C4_TabShownIffShow ==
    pc = "done" =>
        \A n \in 1..Len(objs) : \A tab \in TabsOf(n) :
            Rendered(n) /\ IsOk(TabShow(tab, objs[n].element)) =>
                (TabEmitted(n, tab) <=> TabShow(tab, objs[n].element).v)

\* C5: a field that names a show predicate is in the report only if the
\* predicate is true for the row, and a field of a rendered tab that names
\* none and whose source is an attribute of the row is in the report.
C5_FieldShownOnlyIfShow ==
    pc = "done" =>
        /\ \A i \in 1..Len(out) :
              out[i].k = "field" /\ FieldSpec(out[i].tab, out[i].attrib).show # NoShow =>
                  LET v == ShowValue(out[i].tab,
                                     FieldSpec(out[i].tab, out[i].attrib).show,
                                     objs[out[i].node].element)
                  IN  IsOk(v) => v.v
        /\ \A n \in 1..Len(objs) : \A tab \in TabsOf(n) : \A f \in FieldsOf(tab) :
              /\ TabEmitted(n, tab)
              /\ f.show = NoShow
              /\ f.attrib \in DOMAIN objs[n].element.attrib
              => FieldEmitted(n, tab, f.attrib)

\* The fields of each determination method of the PLr and DC tabs.
PLr_graph_fields ==
    {"riskparams", "riskparamf", "riskparamp", "plrgraphdocumentation", "plrgraphdocument"}
PLr_direct_fields ==
    {"plr", "plrdocumentation", "plrdocument", "plrstandard", "plrstandardfile"}
DC_measure_fields == {"dcmeasureopoid", "dcmeasuredocumentation"}
DC_direct_fields == {"dc", "dcdocumentation"}

\* The row of the node that emitted line i has value v for attribute a.
RowHas(i, a, v) ==
    /\ a \in DOMAIN objs[out[i].node].element.attrib
    /\ objs[out[i].node].element.attrib[a] = v

\* C6: in a PLr tab no risk graph field is emitted under direct entry and no
\* direct entry field under the risk graph; in a DC tab no applied measure
\* field is emitted under direct entry and no direct field under applied
\* measures.
C6_MethodFieldsExclusive ==
    pc = "done" =>
        \A i \in 1..Len(out) :
            /\ out[i].k = "field" /\ out[i].tab = "sf.PLr" =>
                  /\ RowHas(i, "plrdet", <<"detDirect">>) =>
                        out[i].attrib \notin PLr_graph_fields
                  /\ RowHas(i, "plrdet", <<"detMeasures">>) =>
                        out[i].attrib \notin PLr_direct_fields
            /\ out[i].k = "field" /\ out[i].tab = "dc.DC" =>
                  /\ RowHas(i, "dcdet", <<"detDirect">>) =>
                        out[i].attrib \notin DC_measure_fields
                  /\ RowHas(i, "dcdet", <<"detMeasures">>) =>
                        out[i].attrib \notin DC_direct_fields

\* The sub-fields of an MTTFD tab that belong to no direct entry.
MTTFD_sub_fields ==
    {"b10d", "b10", "rdfb10", "nop", "nopday", "nophour", "nopcycle",
     "lambda", "mttf", "mtbf", "rdfmttf"}

\* The row of node n selects direct MTTFD entry and holds a negative mttfd.
NegativeDirect(n) ==
    /\ {"mttfddet", "mttfd"} \subseteq DOMAIN objs[n].element.attrib
    /\ objs[n].element.attrib["mttfddet"] = <<"detDirect">>
    /\ float_sign(objs[n].element.attrib["mttfd"]) = Ok(0 - 1)

\* C7: the MTTFD tab of a row with direct entry and a negative mttfd shows
\* the fault exclusion marker, no 'MTTFD: <number>' line and none of the
\* other sub-fields.
C7_FaultExclusionReplacesValue ==
    pc = "done" =>
        \A n \in 1..Len(objs) : \A tab \in TabsOf(n) \cap MTTFDTabs :
            Rendered(n) /\ NegativeDirect(n) =>
                /\ \E i \in 1..Len(out) :
                      /\ out[i].node = n /\ out[i].tab = tab
                      /\ out[i].text = <<"Fault exclusion", ": ", "True">>
                /\ ~FieldEmitted(n, tab, "mttfd")
                /\ \A a \in MTTFD_sub_fields : ~FieldEmitted(n, tab, a)

\* A line of the report matches an expected line: of that kind, node and
\* tab, with that text when the expectation gives one.
Matches(l, x) ==
    /\ l.k = x.k /\ l.node = x.node /\ l.tab = x.tab
    /\ x.text # <<>> => l.text = x.text

\* The expected lines xs are found among the lines, in this order.
RECURSIVE InOrder(_, _)
InOrder(lines, xs) ==
    IF xs = <<>> THEN TRUE
    ELSE IF lines = <<>> THEN FALSE
    ELSE IF Matches(lines[1], xs[1]) THEN InOrder(Tail(lines), Tail(xs))
    ELSE InOrder(Tail(lines), xs)

\* What the report of the demonstration project holds: the title block and
\* the Documentation tab of the project, the path line of the safety function
\* one level below, its Documentation and PLr tabs with the required level,
\* the path line of the subsystem one level further, its Documentation
\* and PL tabs.
DemoReport ==
    <<Line("path", 1, "", "", <<Node_BORDER_LEFT, " ", "PR", " ", "Demo">>),
      Line("tabtitle", 1, "project.Documentation", "", <<>>),
      Line("path", 2, "", "",
           <<Node_BORDER_LEFT, " ", " ", Node_TREE_BRANCH, "SF", " ", "Stop">>),
      Line("tabtitle", 2, "sf.Documentation", "", <<>>),
      Line("tabtitle", 2, "sf.PLr", "", <<>>),
      Line("field", 2, "sf.PLr", "", <<"Required Performance Level", ": ", "c">>),
      Line("path", 3, "", "",
           <<Node_BORDER_LEFT, " ", " ", " ", Node_TREE_BRANCH, "SB", " ", "Sub">>),
      Line("tabtitle", 3, "doc.Documentation", "", <<>>),
      Line("tabtitle", 3, "subsystem.PL", "", <<>>)>>

\* C8: the run on the demonstration project (project Demo, safety function
\* Stop with PLr entered directly as plC, subsystem of category B with PL
\* entered directly as plC) does not fail, and its report holds the expected
\* lines in order.
C8_DemoProjectRenders ==
    doc = DemoDoc =>
        /\ pc # "failed"
        /\ pc = "done" => InOrder(out, DemoReport)

\* C9: a run that has failed leaves the output file as it was before the
\* run: not created, not truncated, not altered.
C9_FailedRunLeavesFile ==
    pc = "failed" => file = file0

-----------------------------------------------------------------------------
(* The order of the report *)

\* Line i of the report is the first line of a title block, and the nodes
\* whose title blocks stand in the report, in the order of the report.
IsStart(i) == out[i].k = "path" /\ (i = 1 \/ out[i - 1].k # "path")
RECURSIVE BlocksFrom(_)
BlocksFrom(i) ==
    IF i > Len(out) THEN <<>>
    ELSE (IF IsStart(i) THEN <<out[i].node>> ELSE <<>>) \o BlocksFrom(i + 1)

\* The node whose title block is the last one that starts at or before line i.
Owner(i) ==
    LET S == {j \in 1..i : IsStart(j)}
    IN  IF S = {} THEN 0 ELSE out[CHOOSE j \in S : \A k \in S : k <= j].node

\* The concatenation of a sequence of sequences.
RECURSIVE Flatten(_)
Flatten(ss) == IF ss = <<>> THEN <<>> ELSE ss[1] \o Flatten(Tail(ss))

\* The nodes of the subtree of n whose type has tabs, in depth-first
\* pre-order by the children lists.
RECURSIVE PreOrder(_)
PreOrder(n) ==
    (IF tabs(objs[n].type) # <<>> THEN <<n>> ELSE <<>>)
    \o Flatten([i \in 1..Len(objs[n].children) |-> PreOrder(objs[n].children[i])])

\* C12: the title blocks of the report are those of the nodes of the tree
\* that have tabs, in depth-first pre-order (a node before its descendants,
\* a child with all its descendants before the next sibling); every line of
\* a node stands between its title block and the next one; and every
\* children list is in the order in which the rows were constructed.
C12_DepthFirstPreOrder ==
    pc = "done" =>
        /\ BlocksFrom(1) = PreOrder(prj)
        /\ \A i \in 1..Len(out) : out[i].node # 0 => out[i].node = Owner(i)
        /\ \A m \in 1..Len(objs) : \A i, j \in 1..Len(objs[m].children) :
              i < j => objs[m].children[i] < objs[m].children[j]

\* C12 witness: a report in which a node has two rendered children, the
\* first of them (Blk) with a rendered child of its own and with a name and
\* an OID that sort after those of the second (Alt).
C12_Witness ==
    /\ pc = "done"
    /\ \E m \in 1..Len(objs) :
          /\ Len(objs[m].children) = 2
          /\ LET a == objs[m].children[1]
                 b == objs[m].children[2]
             IN  /\ objs[a].children # <<>>
                 /\ Rendered(a) /\ Rendered(b) /\ Rendered(objs[a].children[1])
                 /\ objs[a].element.attrib["name"] = <<"Blk">>
                 /\ objs[b].element.attrib["name"] = <<"Alt">>
                 /\ StrLess(oid(objs[b].element), oid(objs[a].element))

-----------------------------------------------------------------------------
(* The values displayed *)

\* The display of a performance-level code: '-' for plN, 'n.a.' for plU, the
\* lower-cased letter for plA..plE.
PLDisplay(raw) ==
    CASE raw = <<"p","l","N">> -> <<"-">>
      [] raw = <<"p","l","U">> -> <<"n",".","a",".">>
      [] OTHER -> <<Lower(raw[3])>>

\* The text of the line of field a of the tab of node n, if it has one.
FieldText(n, tab, a) ==
    out[CHOOSE i \in 1..Len(out) :
            out[i].node = n /\ out[i].tab = tab /\ out[i].k = "field" /\ out[i].attrib = a].text

\* The attribute of a subsystem row that holds its performance level.
PLSource(e) ==
    IF int(e.attrib["isplpfhbind"]).v > 0 THEN "pldirectbindcal" ELSE "pldirectnobind"

\* C13: in a report, the PLr line of a safety function, the Performance
\* Level line of a subsystem and its software level line display the code of
\* the row decoded once: '-' for plN, 'n.a.' for plU, a..e for plA..plE.
C13_PLDecodedOnce ==
    pc = "done" =>
        \A n \in 1..Len(objs) :
            LET e == objs[n].element IN
            /\ (/\ objs[n].type = "SafetyFunction"
                /\ FieldEmitted(n, "sf.PLr", "plr")
                /\ e.attrib["plr"] \in PLCodes)
               => FieldText(n, "sf.PLr", "plr")
                    = <<"Required Performance Level", ": ">> \o PLDisplay(e.attrib["plr"])
            /\ (/\ objs[n].type = "Subsystem"
                /\ FieldEmitted(n, "subsystem.PL", "pldirectsoftware")
                /\ e.attrib["pldirectsoftware"] \in PLCodes)
               => FieldText(n, "subsystem.PL", "pldirectsoftware")
                    = <<"Software suitable up to PL", ": ">>
                      \o PLDisplay(e.attrib["pldirectsoftware"])
            /\ (/\ objs[n].type = "Subsystem"
                /\ FieldEmitted(n, "subsystem.PL", "pl")
                /\ e.attrib[PLSource(e)] \in PLCodes)
               => FieldText(n, "subsystem.PL", "pl")
                    = <<"Performance Level", ": ">> \o PLDisplay(e.attrib[PLSource(e)])

\* The raw value of field a of a tab bound to element e: the attribute of
\* the row if it has one of that name, else what the method of the tab
\* returns; and what is displayed for a raw value: what the formatter of the
\* field returns if the tab has one, else the raw value.
FieldRaw(tab, e, a) ==
    IF a \in DOMAIN e.attrib THEN Ok(e.attrib[a]) ELSE CallMethod(tab, a, e)
FieldDisplay(tab, e, a, raw) ==
    IF a \in Formatters(tab) THEN Format(tab, a, e, raw) ELSE Ok(raw)

-----------------------------------------------------------------------------
(* The converters and formatters: the properties checked *)

\* The two-digit code at the end of a stripped option.
OptionCode(tok) ==
    10 * DigitVal(Strip(tok)[Len(Strip(tok)) - 1]) + DigitVal(Strip(tok)[Len(Strip(tok))])

\* C15: csv_to_int returns the empty list for the empty string, and for a
\* string of options that each end in a two-digit code the list of these
\* codes as integers, one per option, in the order of the options.
C15_ChecklistDecoder ==
    (call.fn = "csv_to_int" /\ call.returned) =>
        /\ call.arg = <<>> => call.ret = Ok(<<>>)
        /\ (\A i \in 1..Len(call.toks) : call.toks[i] \in CsvGood) =>
              call.ret = Ok([i \in 1..Len(call.toks) |-> OptionCode(call.toks[i])])

\* C15 witness: 'optA01, optB02' has been decoded to [1, 2].
C15_Witness ==
    /\ call.fn = "csv_to_int" /\ call.returned
    /\ call.arg = <<"o","p","t","A","0","1",","," ","o","p","t","B","0","2">>
    /\ call.ret = Ok(<<1, 2>>)

-----------------------------------------------------------------------------
(* Tabs and nodes without content: the properties checked *)

\* The node in whose children list node n stands, for a node that stands
\* in one.
Holder(n) == (CHOOSE h \in Holders(n) : TRUE)[1]

\* Block n stands below a channel of a subsystem, and that subsystem.
OwnedBlock(n) ==
    /\ objs[n].type = "Block"
    /\ Holders(n) # {}
    /\ objs[Holder(n)].type = "Channel"
    /\ Holders(Holder(n)) # {}
    /\ objs[Holder(Holder(n))].type = "Subsystem"
OwningSubsystem(n) == Holder(Holder(n))

\* C17: in a report, the MTTFD tab of a rendered block is absent when the
\* subsystem that owns the block determines MTTFD by direct entry and
\* present when it determines MTTFD from its blocks.
C17_BlockMTTFDFollowsSubsystem ==
    pc = "done" =>
        \A n \in 1..Len(objs) :
            (OwnedBlock(n) /\ Rendered(n)) =>
                LET e == objs[OwningSubsystem(n)].element
                IN  /\ (IsOk(mttfd_direct(e)) /\ mttfd_direct(e).v)
                          => ~TabEmitted(n, "block.MTTFD")
                    /\ AttribIs(e, "mttfddet", <<"detSubItems">>) = Ok(TRUE)
                          => TabEmitted(n, "block.MTTFD")

\* The number of nodes above node n in the tree.
RECURSIVE Depth(_)
Depth(n) == IF Holders(n) = {} THEN 0 ELSE 1 + Depth(Holder(n))

\* The line of the tree title of node n in a title block: the border, the
\* indentation by its depth, the branch and the title.
PathLine(n) ==
    <<Node_BORDER_LEFT, " ">> \o Rep(" ", Depth(n))
    \o (IF Depth(n) > 0 THEN <<Node_TREE_BRANCH>> ELSE <<>>)
    \o tree_title(n).v

C19_TwoBlankLinesBetweenNodes ==
    pc = "done" =>
        \A j \in 2..Len(out) :
            IsStart(j) =>
                /\ j > 3
                /\ out[j - 1].k = "empty" /\ out[j - 2].k = "empty"
                /\ out[j - 3].k # "empty"

-----------------------------------------------------------------------------
(* Rendering as a function of the assembled document *)

-----------------------------------------------------------------------------
(* The tree and the OID mapping *)

\* The tree is assembled: read_tables and get_project have returned.
Assembled == pc \in {"write", "str", "done"}

\* C21: in an assembled tree, the parent of a node, looked up by OID when
\* the node is rendered, is the node in whose children list the node was
\* registered, and the owner of a tab bound to the row of a node, looked up
\* by OID, is that node.
C21_LookupAgreesWithRegistration ==
    Assembled =>
        \A n \in 1..Len(objs) :
            /\ Tab_parent(objs[n].element) = n
            /\ NonRoot(objs[n].type) =>
                  /\ Holders(n) # {}
                  /\ NodeParent(n) = Ok(Holder(n))

\* C22: a step in which the construction of a row fails leaves the assembly
\* as it was: the OID mapping and every node with its children list are
\* unchanged, the objects are those of the rows constructed before the
\* failing one, and none of them is the failing row's.
C22_FailedConstructionLeavesNoTrace ==
    [][(pc = "read" /\ pc' = "failed" /\ err'.at = "read_tables") =>
          /\ nodes' = nodes
          /\ objs' = objs
          /\ pos' = pos
          /\ Len(objs') = Cardinality({i \in 1..(pos - 1) : Constructed(i)})
          /\ \A o \in DOMAIN nodes' : nodes'[o] \in 1..Len(objs')
          /\ \A m \in 1..Len(objs') : \A i \in 1..Len(objs'[m].children) :
                objs'[m].children[i] \in 1..Len(objs')]_vars

\* C22 witness: the construction of a row without parent reference has
\* failed after two nodes were constructed, the second registered with the
\* first; the mapping holds these two nodes only.
C22_Witness ==
    /\ pc = "failed" /\ err.at = "read_tables" /\ err.exc = "KeyError"
    /\ pos = 3
    /\ parent_attr[tables[doc[pos].table]] \notin DOMAIN doc[pos].attrib
    /\ Len(objs) = 2
    /\ objs[1].children = <<2>>
    /\ \A o \in DOMAIN nodes : nodes[o] \in {1, 2}

\* The walk from node n up the parents, each looked up by OID, reaches a
\* node without parent in at most as many steps as there are nodes left to
\* visit; k counts the nodes visited.
RECURSIVE ReachesRoot(_, _)
ReachesRoot(n, k) ==
    /\ k <= Len(objs)
    /\ IsOk(NodeParent(n))
    /\ (NodeParent(n).v = None \/ ReachesRoot(NodeParent(n).v, k + 1))

\* C23: in an assembled tree, the walk up the parents from any node reaches
\* a node without parent; every node stands in at most one children list,
\* once, and only in that of a node constructed before it, so that the
\* recursion down the children lists visits no node twice; and no render
\* ends with a RecursionError.
C23_RenderTerminates ==
    /\ Assembled =>
          \A n \in 1..Len(objs) :
              /\ ReachesRoot(n, 1)
              /\ Cardinality(Holders(n)) <= 1
              /\ \A h \in Holders(n) : h[1] < n
    /\ err.exc # "RecursionError"

\* C24: in an assembled tree, every node constructed is the root chosen by
\* get_project or stands below it by the children lists.
C24_EveryNodeReachable ==
    Assembled => \A n \in 1..Len(objs) : n \in Subtree(prj)

====
